---- MODULE Spec2Model ----
(***************************************************************************)
(* Playback-info resolution and streaming strategy of my-cinema.           *)
(*                                                                         *)
(*   Spec        server/src/services/mediaService.ts: the identifier       *)
(*               resolver, the file prober and the playback info builder   *)
(*   SpecJellyfin  the external-media-server adapter of                    *)
(*               JELLYFIN_INTEGRATION_PLAN.md (route /movie/:tmdbId)       *)
(*   SpecHls     the streaming session manager behind the client's         *)
(*               startHlsSession / seekHlsSession / stopHlsSession         *)
(*   SpecSubtitles  JellyfinService.getSubtitles of the same plan          *)
(*   SpecProbeLive  probeFile event by event (spawn, 'close', 'error')     *)
(*   SpecClient  the web client's getMoviePlayback / getEpisodePlayback    *)
(*   SpecSeason  SeasonEpisodes.vue: loading the download status           *)
(*   SpecAuth    setupAuthInterceptor: the HTTP client's interceptors      *)
(*                                                                         *)
(* Strings the code inspects (codec names, file paths, URLs) are sequences *)
(* of one-character strings; strings it only copies are TLA+ strings.      *)
(***************************************************************************)
EXTENDS Integers, Sequences, FiniteSets, TLC

VARIABLES
  pc,         \* position of the playback request being served
  req,        \* the request: operation and arguments
  env,        \* what the library manager answered to this request so far
  calls,      \* collaborator calls made by this request, in order
  pending,    \* arguments of the buildPlaybackInfo call in progress
  probe,      \* what probeFile saw: outcome and ffprobe's output
  res,        \* the value the request resolved to
  threw,      \* TRUE when the request rejected with an exception
  jf,         \* external-media-server adapter: the request being served
  jfServer,   \* external media server: catalog and scan status
  hls,        \* session manager: session id -> session record
  procs,      \* transcoder processes: next process id, live processes, cap
  hlsLog,     \* last session-manager operation
  hlsReq,     \* session-creation requests in flight to the manager
  jfSubs,     \* external-media-server adapter: the getSubtitles call
  ffprobe,    \* probeFile: the ffprobe child, its events and the promise
  client,     \* web client: the playback-info request of mediaService
  seasonView, \* SeasonEpisodes component: props, requests in flight, status
  auth        \* web client: the response interceptor of the HTTP client

pbVars  == <<pc, req, env, calls, pending, probe, res, threw>>
jfVars  == <<jf, jfServer>>
hlsVars == <<hls, procs, hlsLog, hlsReq>>
extVars == <<jfSubs, ffprobe, client, seasonView, auth>>
vars    == <<pc, req, env, calls, pending, probe, res, threw, jf, jfServer, hls, procs, hlsLog, hlsReq,
             jfSubs, ffprobe, client, seasonView, auth>>

----------------------------------------------------------------------------
(* Bounds *)

MaxStreams == 4
MaxSeries == 2
MaxEpisodes == 2
MaxJfStreams == 3
MaxSessions == 2
MaxProcs == 3
MaxInflight == 2
MaxProbeStreams == 2
MaxClientSubs == 2
MaxSonarrId == 2
MaxLoads == 2

----------------------------------------------------------------------------
(* Values *)

Null == [null |-> TRUE]

(* Array.prototype.filter: the elements satisfying Test, in order *)
Filter(s, Test(_)) == SelectSeq(s, Test)

(* Array.prototype.find: the first element satisfying Test, else Null *)
Find(s, Test(_)) ==
  IF \E i \in 1..Len(s) : Test(s[i])
  THEN s[CHOOSE i \in 1..Len(s) : Test(s[i]) /\ \A j \in 1..(i-1) : ~Test(s[j])]
  ELSE Null

Uppers == <<"A","B","C","D","E","F","G","H","I","J","K","L","M",
            "N","O","P","Q","R","S","T","U","V","W","X","Y","Z">>
Lowers == <<"a","b","c","d","e","f","g","h","i","j","k","l","m",
            "n","o","p","q","r","s","t","u","v","w","x","y","z">>

ToLowerChar(c) ==
  IF \E i \in 1..26 : Uppers[i] = c
  THEN Lowers[CHOOSE i \in 1..26 : Uppers[i] = c]
  ELSE c

(* String.prototype.toLowerCase *)
toLowerCase(s) == [i \in 1..Len(s) |-> ToLowerChar(s[i])]

(* codec names *)
aac       == <<"a","a","c">>
mp3       == <<"m","p","3">>
opus      == <<"o","p","u","s">>
vorbis    == <<"v","o","r","b","i","s">>
flac      == <<"f","l","a","c">>
pcm_s16le == <<"p","c","m","_","s","1","6","l","e">>
pcm_s24le == <<"p","c","m","_","s","2","4","l","e">>
eac3      == <<"e","a","c","3">>
AAC       == <<"A","A","C">>
h264      == <<"h","2","6","4">>
subrip    == <<"s","u","b","r","i","p">>
unknown   == <<"u","n","k","n","o","w","n">>

BROWSER_COMPATIBLE_AUDIO == {aac, mp3, opus, vorbis, flac, pcm_s16le, pcm_s24le}

(* URL prefixes and file paths *)
TranscodePrefix == <<"/","a","p","i","/","m","e","d","i","a","/","t","r","a","n","s","c","o","d","e","/">>
StreamPrefix    == <<"/","a","p","i","/","m","e","d","i","a","/","s","t","r","e","a","m","/">>
MoviePath       == <<"/","m","/","F"," ","C",".","m","k","v">>
EpisodePath     == <<"/","t","/","e","1">>
EmptyPath       == <<>>

Digits == <<"0","1","2","3","4","5","6","7","8","9">>
IsDigit(c) == \E i \in 1..10 : Digits[i] = c
DigitVal(c) == (CHOOSE i \in 1..10 : Digits[i] = c) - 1

Unreserved == {Uppers[i] : i \in 1..26} \cup {Lowers[i] : i \in 1..26}
                \cup {Digits[i] : i \in 1..10}
                \cup {"-", "_", ".", "!", "~", "*", "'", "(", ")"}

(* percent-encoding of the ASCII characters the model's paths are made of *)
EncodeChar(c) ==
  IF c \in Unreserved THEN <<c>>
  ELSE CASE c = "/" -> <<"%","2","F">>
         [] c = " " -> <<"%","2","0">>
         [] c = ":" -> <<"%","3","A">>
         [] c = "%" -> <<"%","2","5">>
         [] c = "?" -> <<"%","3","F">>
         [] c = "=" -> <<"%","3","D">>

RECURSIVE encodeURIComponent(_)
encodeURIComponent(s) ==
  IF s = <<>> THEN <<>> ELSE EncodeChar(Head(s)) \o encodeURIComponent(Tail(s))

(* positions of character c in s *)
Positions(s, c) == {i \in 1..Len(s) : s[i] = c}
Max(S) == CHOOSE x \in S : \A y \in S : y <= x

(* path.extname: from the last "." of the last path segment, "" when there
   is none or when it is the segment's first character *)
extname(p) ==
  LET slash == IF Positions(p, "/") = {} THEN 0 ELSE Max(Positions(p, "/"))
      dots  == {i \in Positions(p, ".") : i > slash + 1}
  IN IF dots = {} THEN <<>> ELSE SubSeq(p, Max(dots), Len(p))

(* String.prototype.slice(1) *)
Slice1(s) == IF s = <<>> THEN <<>> ELSE Tail(s)

mkv == <<"m","k","v">>

(* String(n).padStart(2, '0') for 0 <= n < 100 *)
PadStart2(n) == IF n < 10 THEN <<0, n>> ELSE <<n \div 10, n % 10>>


----------------------------------------------------------------------------
(* ffprobe output *)

(* One stream of ffprobe's -show_streams output, without its index.  "" and 0
   stand for an absent tag or attribute.  isDefault is the stream's
   disposition.default flag, which ffprobe reports and the MediaStream
   interface does not declare. *)
VideoShapes ==
  { [codec_type |-> "video", codec_name |-> h264, width |-> w, height |-> (w * 9) \div 16,
     channels |-> 0, language |-> "", title |-> "", isDefault |-> FALSE] : w \in {1920} }

AudioShapes ==
  { [codec_type |-> "audio", codec_name |-> c[1], width |-> 0, height |-> 0,
     channels |-> c[2], language |-> c[3], title |-> "", isDefault |-> d] :
       c \in { <<aac, 2, "eng">>, <<AAC, 0, "">>, <<eac3, 6, "eng">> },
       d \in BOOLEAN }

SubtitleShapes ==
  { [codec_type |-> "subtitle", codec_name |-> subrip, width |-> 0, height |-> 0,
     channels |-> 0, language |-> l[1], title |-> l[2], isDefault |-> FALSE] :
       l \in { <<"eng", "">>, <<"fre", "French">> } }

StreamShapes == VideoShapes \cup AudioShapes \cup SubtitleShapes

(* ffprobe numbers the streams of a file by position, from 0 *)
WithIndex(shapes) ==
  [i \in 1..Len(shapes) |->
     [index |-> i - 1, codec_type |-> shapes[i].codec_type, codec_name |-> shapes[i].codec_name,
      width |-> shapes[i].width, height |-> shapes[i].height, channels |-> shapes[i].channels,
      language |-> shapes[i].language, title |-> shapes[i].title,
      isDefault |-> shapes[i].isDefault]]

(* format.duration and format.size are decimal strings; "N/A" is what ffprobe
   prints for a value it does not know *)
Formats ==
  { [duration |-> <<"7",".","5">>, size |-> <<"1","0","0","0">>],
    [duration |-> <<"N","/","A">>, size |-> <<>>] }

RECURSIVE DigitsValue(_, _)
(* value of the longest prefix of decimal digits of s, after acc *)
DigitsValue(s, acc) ==
  IF s = <<>> \/ ~IsDigit(Head(s)) THEN acc
  ELSE DigitsValue(Tail(s), 10 * acc + DigitVal(Head(s)))

RECURSIVE SkipDigits(_)
SkipDigits(s) == IF s = <<>> \/ ~IsDigit(Head(s)) THEN s ELSE SkipDigits(Tail(s))

(* parseInt(s) || 0 on unsigned decimal strings: NaN (no leading digit) is 0 *)
ParseIntOr0(s) == DigitsValue(s, 0)

(* Math.floor((parseFloat(s) || 0) * 1000) on unsigned decimal strings with
   at most three fraction digits *)
DurationMs(s) ==
  LET rest == SkipDigits(s)
      frac == IF rest # <<>> /\ Head(rest) = "." THEN Tail(rest) ELSE <<>>
      f3   == [i \in 1..3 |-> IF i <= Len(frac) /\ IsDigit(frac[i]) /\
                                 (\A j \in 1..i : IsDigit(frac[j]))
                              THEN DigitVal(frac[i]) ELSE 0]
  IN IF s = <<>> \/ ~IsDigit(Head(s)) THEN 0
     ELSE DigitsValue(s, 0) * 1000 + f3[1] * 100 + f3[2] * 10 + f3[3]

GoodFormat == [duration |-> <<"7",".","5">>, size |-> <<"1","0","0","0">>]

(* The outcomes of one probeFile call.  "ok" carries the parsed JSON, which
   is whatever ffprobe printed: a format and a stream list, or an object
   without a stream list. *)
ProbeFailures ==
  { [outcome |-> o] : o \in {"missing", "exit_nonzero", "spawn_error", "parse_error"} }

ProbeOk(info) == [outcome |-> "ok", info |-> info]

NotProbed == [outcome |-> "none"]

(* probeFile: the MediaInfo it resolves to, Null for every failure *)
probeFile(p) == IF p.outcome = "ok" THEN p.info ELSE Null

(* probeFile spawns ffprobe unless the file does not exist *)
Spawned(p) == p.outcome \notin {"none", "missing"}

(* what ffprobe has printed when its output closes: text JSON.parse rejects,
   or the JSON of a media info *)
NoOutput == [parses |-> FALSE]

ProbeOutputs ==
  {NoOutput}
  \cup { [parses |-> TRUE, info |-> [format |-> f]] : f \in Formats }
  \cup UNION { { [parses |-> TRUE, info |-> [format |-> GoodFormat, streams |-> WithIndex(shapes)]]
                 : shapes \in [1..n -> StreamShapes] } : n \in 0..MaxProbeStreams }

(* no probeFile call in progress *)
ProbeIdle ==
  [pc |-> "idle", exists |-> FALSE, spawns |-> 0, child |-> "none", code |-> 0,
   stdout |-> NoOutput, queue |-> {}, handled |-> {}, resolves |-> <<>>, promise |-> [state |-> "pending", value |-> Null]]

----------------------------------------------------------------------------
(* buildPlaybackInfo *)

(* a || b on strings *)
OrElse(a, b) == IF a # "" THEN a ELSE b

IsVideo(s)    == s.codec_type = "video"
IsAudio(s)    == s.codec_type = "audio"
IsSubtitle(s) == s.codec_type = "subtitle"

(* displayTitle: tags.title || tags.language || `${label} ${n}` *)
DisplayTitle(s, label, n) ==
  IF s.title # "" THEN [text |-> s.title, n |-> 0]
  ELSE IF s.language # "" THEN [text |-> s.language, n |-> 0]
  ELSE [text |-> label, n |-> n]

SubtitleTrack(s, idx) ==
  [id |-> s.index, streamIndex |-> idx,
   language |-> OrElse(s.language, "Unknown"), languageCode |-> OrElse(s.language, "und"),
   displayTitle |-> DisplayTitle(s, "Subtitle", idx + 1), format |-> s.codec_name]

AudioTrackDefaultOrFirst(s, i) ==
  [id |-> s.index, streamIndex |-> i,
   language |-> OrElse(s.language, "Unknown"), languageCode |-> OrElse(s.language, "und"),
   displayTitle |-> DisplayTitle(s, "Audio", i + 1), codec |-> s.codec_name,
   channels |-> IF s.channels # 0 THEN s.channels ELSE 2,
   selected |-> (s.isDefault \/ i = 0)]

AudioTrack(s, i) ==
  [id |-> s.index, streamIndex |-> i,
   language |-> OrElse(s.language, "Unknown"), languageCode |-> OrElse(s.language, "und"),
   displayTitle |-> DisplayTitle(s, "Audio", i + 1), codec |-> s.codec_name,
   channels |-> IF s.channels # 0 THEN s.channels ELSE 2,
   selected |-> (i = 0)]

AudioCodecOfOrAac(audioStream) ==
  IF audioStream = Null \/ audioStream.codec_name = <<>> THEN aac
  ELSE audioStream.codec_name

(* the audio codec the strategy is decided on: audioStream?.codec_name || 'unknown' *)
AudioCodecOf(audioStream) ==
  IF audioStream = Null \/ audioStream.codec_name = <<>> THEN unknown
  ELSE audioStream.codec_name

NeedsTranscodeNoLower(audioCodec) == audioCodec \notin BROWSER_COMPATIBLE_AUDIO

NeedsTranscode(audioCodec) == toLowerCase(audioCodec) \notin BROWSER_COMPATIBLE_AUDIO

(* The result of buildPlaybackInfo(filePath, title, type) when probeFile saw p:
   [threw |-> TRUE] for a TypeError, else [threw |-> FALSE, value |-> ...] *)
buildPlaybackInfo(filePath, title, type, p) ==
  LET mediaInfo == probeFile(p) IN
  IF mediaInfo = Null THEN [threw |-> FALSE, value |-> Null]
  ELSE IF "streams" \notin DOMAIN mediaInfo THEN [threw |-> TRUE]
  ELSE
    LET streams         == mediaInfo.streams
        videoStream     == Find(streams, IsVideo)
        audioStream     == Find(streams, IsAudio)
        subtitleStreams == Filter(streams, IsSubtitle)
        subtitles       == [k \in 1..Len(subtitleStreams) |->
                              SubtitleTrack(subtitleStreams[k], k - 1)]
        audioStreams    == Filter(streams, IsAudio)
        audioTracks     == [k \in 1..Len(audioStreams) |->
                              AudioTrack(audioStreams[k], k - 1)]
        audioCodec      == AudioCodecOf(audioStream)
        needsTranscode  == NeedsTranscode(audioCodec)
        encodedPath     == encodeURIComponent(filePath)
        ext             == Slice1(extname(filePath))
    IN IF videoStream = Null THEN [threw |-> FALSE, value |-> Null]
       ELSE [threw |-> FALSE, value |->
              [found |-> TRUE, title |-> title, type |-> type, filePath |-> filePath,
               fileSize |-> ParseIntOr0(mediaInfo.format.size),
               duration |-> DurationMs(mediaInfo.format.duration),
               mediaInfo |-> [width |-> videoStream.width, height |-> videoStream.height,
                              videoCodec |-> videoStream.codec_name,
                              audioCodec |-> audioCodec,
                              container |-> IF ext # <<>> THEN ext ELSE mkv],
               needsTranscode |-> needsTranscode,
               streamUrl |-> IF needsTranscode THEN TranscodePrefix \o encodedPath
                             ELSE StreamPrefix \o encodedPath,
               subtitles |-> subtitles,
               audioTracks |-> audioTracks]]

----------------------------------------------------------------------------
(* The library manager, as the resolver sees it *)

MovieIds == {550}
ShowIds == {1399}
Seasons == {1}
EpisodeNumbers == {1, 2}

(* radarrService.getMovieByTmdbId: an exception, null, or a movie *)
MovieResponses ==
  { [kind |-> "throws"], [kind |-> "null"] }
    \cup { [kind |-> "movie", title |-> "Fight Club", hasFile |-> h, movieFile |-> f] :
             h \in BOOLEAN, f \in {Null, [path |-> EmptyPath], [path |-> MoviePath]} }

MovieHasNoFileIgnoresPath(movie) == ~movie.hasFile \/ movie.movieFile = Null

(* !movie.hasFile || !movie.movieFile?.path *)
MovieHasNoFile(movie) ==
  ~movie.hasFile \/ movie.movieFile = Null \/ movie.movieFile.path = EmptyPath

(* sonarrService.lookupSeriesByTmdbId: an exception, nothing, a lookup
   result without tvdbId, or one with a tvdbId *)
LookupFailures == {"null", "no_tvdbId"}

LookupRunsWithoutBreak(n) == [1..n -> LookupFailures \cup {"tvdbId"}]

(* The lookups one getEpisodePlayback call makes over a library of n series:
   one per series while they fail, stopping at the first that returns a
   tvdbId or throws *)
LookupRuns(n) ==
  [1..n -> LookupFailures]
    \cup UNION { { f \o <<last>> : f \in [1..j -> LookupFailures], last \in {"tvdbId", "throws"} }
                 : j \in 0..(n - 1) }

(* sonarrService.getSeriesByTvdbId *)
SeriesResponses ==
  { [kind |-> "throws"], [kind |-> "null"],
    [kind |-> "series", id |-> 12, title |-> "Game of Thrones"] }

EpisodeShapes ==
  { [seasonNumber |-> sn, episodeNumber |-> 1, hasFile |-> h, episodeFileId |-> f,
     title |-> "Winter Is Coming"] : sn \in 1..2, h \in BOOLEAN, f \in {0, 7} }

(* sonarrService.getEpisodes: an exception or an episode list *)
EpisodesResponses ==
  { [kind |-> "throws"] }
    \cup { [kind |-> "list", episodes |-> l] :
             l \in UNION { [1..k -> EpisodeShapes] : k \in 0..MaxEpisodes } }

(* the episodefile request of getEpisodeFilePath *)
FileResponses ==
  { [kind |-> "fetch_throws"], [kind |-> "not_ok"],
    [kind |-> "ok", path |-> EmptyPath], [kind |-> "ok", path |-> EpisodePath] }

(* getEpisodeFilePath: the path, Null when the request fails *)
getEpisodeFilePath(r) == IF r.kind = "ok" THEN r.path ELSE Null

EpisodeHasNoFileFlagOnly(ep) == ~ep.hasFile

(* !targetEpisode.hasFile || !targetEpisode.episodeFileId *)
EpisodeHasNoFile(ep) == ~ep.hasFile \/ ep.episodeFileId = 0

MovieTitle(movie) == [main |-> movie.title, season |-> <<>>, episode |-> <<>>, sub |-> ""]

EpisodeTitle(series, season, episode, ep) ==
  [main |-> series.title, season |-> PadStart2(season), episode |-> PadStart2(episode),
   sub |-> ep.title]

NoEnv == [kind |-> "none"]
NoReq == [op |-> "none"]
NoPending == [type |-> "none"]

----------------------------------------------------------------------------
(* The external-media-server adapter (JELLYFIN_INTEGRATION_PLAN.md 2.2, 2.3) *)

(* one MediaStream of a Jellyfin MediaSource, without its Index *)
JfStreamShapes ==
  { [Type |-> "Video", Codec |-> "h264", Language |-> "", DisplayTitle |-> "",
     IsDefault |-> FALSE, IsExternal |-> FALSE, Path |-> "", Width |-> 1920, Height |-> 1080,
     Channels |-> 0] }
  \cup { [Type |-> "Audio", Codec |-> "eac3", Language |-> "eng", DisplayTitle |-> "",
          IsDefault |-> d, IsExternal |-> FALSE, Path |-> "", Width |-> 0, Height |-> 0,
          Channels |-> 6] : d \in BOOLEAN }
  \cup { [Type |-> "Subtitle", Codec |-> "subrip", Language |-> "eng", DisplayTitle |-> "",
          IsDefault |-> FALSE, IsExternal |-> x, Path |-> IF x THEN "/subs/F C.srt" ELSE "",
          Width |-> 0, Height |-> 0, Channels |-> 0] : x \in BOOLEAN }

JfWithIndex(shapes) ==
  [i \in 1..Len(shapes) |->
     [Index |-> i - 1, Type |-> shapes[i].Type, Codec |-> shapes[i].Codec,
      Language |-> shapes[i].Language, DisplayTitle |-> shapes[i].DisplayTitle,
      IsDefault |-> shapes[i].IsDefault, IsExternal |-> shapes[i].IsExternal,
      Path |-> shapes[i].Path, Width |-> shapes[i].Width, Height |-> shapes[i].Height,
      Channels |-> shapes[i].Channels]]

MediaSourceIds == {"ms1", "ms2"}

JfMediaSource(shapes, direct) ==
  [Id |-> "ms1", Container |-> "mkv", RunTimeTicks |-> 75000000,
   SupportsDirectPlay |-> direct, MediaStreams |-> JfWithIndex(shapes)]

JfItem == [Id |-> "item1"]

(* how an HTTP request of a best-effort call ends: axios rejects when the
   server is unreachable and when it answers with an error status *)
HttpOutcomes == {"ok", "network_error", "status_500"}

(* the last best-effort call: which, how its HTTP request ended, and whether
   the call rejected *)
NoSide == [op |-> "none", http |-> "ok", threw |-> FALSE]

JfIdle ==
  [pc |-> "idle", radarr |-> NoEnv, searched |-> FALSE, item |-> Null, refreshCalls |-> 0,
   negotiations |-> 0, mediaSource |-> Null, status |-> 0, response |-> Null, side |-> NoSide]

JfServerInit == [indexed |-> FALSE, scan |-> "idle"]

(* the getSubtitles call: arguments, how GET /Items/:id ended, the
   MediaSources of its response (or that the field is absent), the result *)
NoMediaSources == [present |-> FALSE, list |-> <<>>]

SubsIdle ==
  [pc |-> "idle", itemId |-> "", mediaSourceId |-> "", http |-> "ok",
   MediaSources |-> NoMediaSources, result |-> <<>>]

(* The streaming session manager: values *)

SessionIds == 1..MaxSessions
Offsets == {0, 60}

(* options.startTime ?? 0 *)
StartTimes == {0}

(* the logical (file, client) pairs sessions are created for: the filePath of
   the start request and the client sending it *)
NoPair == [filePath |-> EmptyPath, client |-> "none"]
Pairs == { [filePath |-> f, client |-> "browser"] : f \in {MoviePath, EpisodePath} }

NoSession == [state |-> "none", offset |-> 0, pair |-> NoPair]
(* a stopped session: its entry holds nothing but its state *)
Stopped == [state |-> "stopped", offset |-> 0, pair |-> NoPair]
NoOp == [op |-> "none", sid |-> 0, prior |-> 0, raced |-> FALSE]
ActiveStates == {"created", "running", "seeking"}

(* The start requests in flight to the manager, per (file, client) pair: n is
   their number, and raced tells that each of them was already in flight
   when the manager last created a session for the pair.  The startTime a
   request carries is drawn when the request is served. *)
NoRequests == [p \in Pairs |-> [n |-> 0, raced |-> FALSE]]

(* the values the cap on concurrently running transcoder processes is
   configured to *)
TranscoderCaps == {1, 2}

----------------------------------------------------------------------------
(* Requests served by MediaService *)

Finish(value, didThrow) ==
  /\ pc' = "done"
  /\ res' = value
  /\ threw' = didThrow
  /\ pending' = NoPending

(* the call of buildPlaybackInfo *)
Build(filePath, title, type) ==
  /\ pc' = "build"
  /\ pending' = [filePath |-> filePath, title |-> title, type |-> type]
  /\ UNCHANGED <<res, threw>>

Answered(r) == env' = r

(* getMoviePlayback up to its call of buildPlaybackInfo *)
getMoviePlayback(tmdbId) ==
  /\ pc = "idle"
  /\ \E r \in MovieResponses :
       /\ req' = [op |-> "movie", tmdbId |-> tmdbId]
       /\ calls' = <<"getMovieByTmdbId">>
       /\ CASE r.kind = "throws" -> Finish(Null, TRUE) /\ Answered(r)
            [] r.kind = "null"   -> Finish(Null, FALSE) /\ Answered(r)
            [] OTHER ->
                 IF MovieHasNoFile(r) THEN Finish(Null, FALSE) /\ Answered(r)
                 ELSE Build(r.movieFile.path, MovieTitle(r), "movie") /\ Answered(r)
  /\ UNCHANGED <<probe, jf, jfServer, hls, procs, hlsLog, hlsReq, extVars>>

(* sonarrService.getSeries: an exception or a list of n series *)
SeriesListResponses ==
  { [kind |-> "throws"] } \cup { [kind |-> "list", n |-> n] : n \in 0..MaxSeries }

Unused == [kind |-> "unused"]

SeriesNotFoundLooksOnlyAtSeries(matched, sr) == sr.kind # "series"

(* !series: no lookup returned a tvdbId, or getSeriesByTvdbId found nothing *)
SeriesNotFound(matched, sr) == ~matched \/ sr.kind = "null"

(* One run of getEpisodePlayback(tmdbId, season, episode) up to its call of
   buildPlaybackInfo, given what the library manager answers: sl to
   getSeries, run to the lookups, sr to getSeriesByTvdbId, er to getEpisodes
   and fr to the episodefile request.  Answers to calls the run does not
   make are not looked at.  Yields the calls made, the answers consumed and
   how the run ends; once buildPlaybackInfo is called, the series list, the
   episode list and the earlier lookups are dead and only the last lookup,
   the series, the target episode and the file answer are kept. *)
EpisodeRun(season, episode, sl, run, sr, er, fr) ==
  LET lookupCalls == [i \in 1..Len(run) |-> "lookupSeriesByTmdbId"]
      matched     == run # <<>> /\ run[Len(run)] = "tvdbId"
      lookupThrew == run # <<>> /\ run[Len(run)] = "throws"
      c1 == <<"getSeries">>
      c2 == c1 \o lookupCalls
      c3 == IF matched THEN c2 \o <<"getSeriesByTvdbId">> ELSE c2
      c4 == c3 \o <<"getEpisodes">>
      c5 == c4 \o <<"getEpisodeFilePath">>
      e1 == [kind |-> "sonarr", series |-> sl, lookups |-> <<>>, found |-> Unused,
             episodes |-> Unused, target |-> Null, file |-> Unused]
      e2 == [e1 EXCEPT !.lookups = run]
      e3 == IF matched THEN [e2 EXCEPT !.found = sr] ELSE e2
      e4 == [e3 EXCEPT !.episodes = er]
      target == IF er.kind = "list"
                THEN Find(er.episodes,
                          LAMBDA ep : ep.seasonNumber = season /\ ep.episodeNumber = episode)
                ELSE Null
      e5 == [e4 EXCEPT !.target = target]
      e6 == [e5 EXCEPT !.file = fr]
      episodeFile == getEpisodeFilePath(fr)
  IN IF sl.kind = "throws" THEN [calls |-> c1, env |-> e1, end |-> "throw"]
     ELSE IF lookupThrew THEN [calls |-> c2, env |-> e2, end |-> "throw"]
     ELSE IF matched /\ sr.kind = "throws" THEN [calls |-> c3, env |-> e3, end |-> "throw"]
     ELSE IF SeriesNotFound(matched, sr) THEN [calls |-> c3, env |-> e3, end |-> "null"]
     ELSE IF er.kind = "throws" THEN [calls |-> c4, env |-> e4, end |-> "throw"]
     ELSE IF target = Null THEN [calls |-> c4, env |-> e5, end |-> "null"]
     ELSE IF EpisodeHasNoFile(target) THEN [calls |-> c4, env |-> e5, end |-> "null"]
     ELSE IF episodeFile = Null \/ episodeFile = EmptyPath
          THEN [calls |-> c5, env |-> e6, end |-> "null"]
     ELSE [calls |-> c5,
           env |-> [e6 EXCEPT !.series = Unused, !.episodes = Unused,
                              !.lookups = IF run = <<>> THEN <<>> ELSE <<run[Len(run)]>>],
           end |-> "build", filePath |-> episodeFile,
           title |-> EpisodeTitle(sr, season, episode, target)]

(* getEpisodePlayback up to its call of buildPlaybackInfo *)
getEpisodePlayback(tmdbId, season, episode) ==
  /\ pc = "idle"
  /\ \E sl \in SeriesListResponses :
     \E run \in (IF sl.kind = "list" THEN LookupRuns(sl.n) ELSE {<<>>}) :
     \E sr \in SeriesResponses, er \in EpisodesResponses, fr \in FileResponses :
       LET r == EpisodeRun(season, episode, sl, run, sr, er, fr) IN
       /\ req' = [op |-> "episode", tmdbId |-> tmdbId, season |-> season, episode |-> episode]
       /\ calls' = r.calls
       /\ CASE r.end = "throw" -> Finish(Null, TRUE) /\ Answered(r.env)
            [] r.end = "null"  -> Finish(Null, FALSE) /\ Answered(r.env)
            [] OTHER           -> Build(r.filePath, r.title, "episode") /\ Answered(r.env)
  /\ UNCHANGED <<probe, jf, jfServer, hls, procs, hlsLog, hlsReq, extVars>>

(* buildPlaybackInfo when probeFile sees p; fs.existsSync('') is false *)
BuildWith(p) ==
  LET r == buildPlaybackInfo(pending.filePath, pending.title, pending.type, p) IN
  /\ pending.filePath = EmptyPath => p.outcome = "missing"
  /\ probe' = p
  /\ calls' = Append(calls, "probeFile")
  /\ IF r.threw THEN Finish(Null, TRUE) ELSE Finish(r.value, FALSE)

(* buildPlaybackInfo: probe the file and assemble the PlaybackInfo.  The
   unparseable format is combined with the files of at most one stream. *)
buildPlaybackInfoCall ==
  /\ pc = "build"
  /\ \/ \E p \in ProbeFailures : BuildWith(p)
     \/ \E f \in Formats : BuildWith(ProbeOk([format |-> f]))
     \/ \E n \in 0..MaxStreams : \E shapes \in [1..n -> StreamShapes] :
          \E f \in Formats :
            /\ n <= 1 \/ f = GoodFormat
            /\ BuildWith(ProbeOk([format |-> f, streams |-> WithIndex(shapes)]))
  /\ UNCHANGED <<req, env, jf, jfServer, hls, procs, hlsLog, hlsReq, extVars>>

(* the response is sent; the service holds no state between requests *)
Respond ==
  /\ pc = "done"
  /\ pc' = "idle"
  /\ req' = NoReq
  /\ env' = NoEnv
  /\ calls' = <<>>
  /\ pending' = NoPending
  /\ probe' = NotProbed
  /\ res' = Null
  /\ threw' = FALSE
  /\ UNCHANGED <<jf, jfServer, hls, procs, hlsLog, hlsReq, extVars>>

----------------------------------------------------------------------------
(* Specification of MediaService *)

InitPlayback ==
  /\ pc = "idle"
  /\ req = NoReq
  /\ env = NoEnv
  /\ calls = <<>>
  /\ pending = NoPending
  /\ probe = NotProbed
  /\ res = Null
  /\ threw = FALSE

InitJellyfin ==
  /\ jf = JfIdle
  /\ jfServer = JfServerInit

InitHls ==
  /\ hls = [sid \in SessionIds |-> NoSession]
  /\ procs = [next |-> 1, live |-> {}, cap |-> 0]
  /\ hlsLog = NoOp
  /\ hlsReq = NoRequests

(* the web client's playback request: which call, the stored token, the
   server's response, and what the call returned *)
ClientIdle ==
  [pc |-> "idle", op |-> "none", token |-> <<>>, response |-> [kind |-> "none"],
   result |-> Null, threw |-> FALSE]

(* props.sonarrSeriesId: 0 stands for undefined *)
SonarrIds == 1..MaxSonarrId

(* the SeasonEpisodes component before it is mounted; sonarrSeasons and
   sonarrEpisodes are named by the series whose data they hold, 0 for [] *)
SeasonUnmounted ==
  [mounted |-> FALSE, sonarrSeriesId |-> 0, sonarrSeasons |-> 0, sonarrEpisodes |-> 0,
   downloadStatusLoaded |-> FALSE, loads |-> [i \in SonarrIds |-> 0]]

(* the auth store's token (<<>>: none), the router's current route, and the
   last run of an interceptor *)
AuthInit ==
  [token |-> <<>>, route |-> "login", last |-> [kind |-> "none"]]

Init ==
  /\ InitPlayback /\ InitJellyfin /\ InitHls
  /\ jfSubs = SubsIdle /\ ffprobe = ProbeIdle /\ client = ClientIdle
  /\ seasonView = SeasonUnmounted /\ auth = AuthInit

Next ==
  \/ \E t \in MovieIds : getMoviePlayback(t)
  \/ \E t \in ShowIds, sn \in Seasons, e \in EpisodeNumbers : getEpisodePlayback(t, sn, e)
  \/ buildPlaybackInfoCall
  \/ Respond

Spec == Init /\ [][Next]_vars

----------------------------------------------------------------------------
(* Properties of MediaService *)

(* a request that went through buildPlaybackInfo and got a PlaybackInfo *)
Built == pc = "done" /\ probe.outcome = "ok" /\ res # Null

ProbedStreams == probe.info.streams

ProbedOfType(t) == SelectSeq(ProbedStreams, LAMBDA st : st.codec_type = t)

EqualIgnoringCase(a, b) ==
  Len(a) = Len(b) /\ \A i \in 1..Len(a) : ToLowerChar(a[i]) = ToLowerChar(b[i])

AllowList == { <<"a","a","c">>, <<"m","p","3">>, <<"o","p","u","s">>,
               <<"v","o","r","b","i","s">>, <<"f","l","a","c">>,
               <<"p","c","m","_","s","1","6","l","e">>,
               <<"p","c","m","_","s","2","4","l","e">> }

(* C1: the strategy is decided by the first audio stream's codec alone:
   direct (needsTranscode = FALSE) exactly when that codec equals, ignoring
   case, one of aac, mp3, opus, vorbis, flac, pcm_s16le, pcm_s24le *)
C1_ClassifyByPrimaryAudioCodec ==
  Built =>
    LET audio == ProbedOfType("audio")
        compatible == audio # <<>> /\ \E c \in AllowList : EqualIgnoringCase(audio[1].codec_name, c)
    IN res.needsTranscode = ~compatible

C1_Witness ==
  /\ Built
  /\ ProbedOfType("audio") # <<>>
  /\ ProbedOfType("audio")[1].codec_name = <<"A","A","C">>
  /\ ~res.needsTranscode

DenseIds(tracks) == \A k \in 1..Len(tracks) : tracks[k].id = k - 1

(* C2: the ids of audioTracks and of subtitles are each 0,1,...,n-1 *)
C2_DenseTrackIds ==
  Built => DenseIds(res.audioTracks) /\ DenseIds(res.subtitles)

SelectedTracks == {k \in 1..Len(res.audioTracks) : res.audioTracks[k].selected}

(* C3: there is one track per audio stream, and exactly one of them is
   selected when there is any, none otherwise *)
C3_ExactlyOneSelected ==
  Built =>
    /\ Len(res.audioTracks) = Len(ProbedOfType("audio"))
    /\ Cardinality(SelectedTracks) = IF Len(ProbedOfType("audio")) > 0 THEN 1 ELSE 0

C3_Witness ==
  /\ Built
  /\ Len(res.audioTracks) >= 2
  /\ \E k \in 2..Len(res.audioTracks) : ProbedOfType("audio")[k].isDefault
  /\ Cardinality(SelectedTracks) = 1

(* C4: the selected track is the first source-marked default audio stream,
   and the first audio stream when none is marked *)
C4_SelectedIsSourceDefault ==
  Built =>
    LET audio == ProbedOfType("audio")
        marked == {k \in 1..Len(audio) : audio[k].isDefault}
        expected == IF marked = {} THEN 1 ELSE CHOOSE k \in marked : \A j \in marked : k <= j
    IN \A k \in 1..Len(res.audioTracks) : res.audioTracks[k].selected <=> (k = expected)

(* the library manager knows the title and has no file for it *)
TitleWithoutFile ==
  \/ /\ env.kind = "movie"
     /\ ~env.hasFile \/ env.movieFile = Null \/ env.movieFile.path = <<>>
  \/ /\ env.kind = "sonarr"
     /\ env.target # Null
     /\ ~env.target.hasFile \/ env.target.episodeFileId = 0

(* C5: a title without a file resolves to null, without an exception and
   without a probe; and no PlaybackInfo ever has an empty filePath *)
C5_NoFileIsNotFound ==
  /\ (pc \in {"build", "done"} /\ TitleWithoutFile) =>
        /\ pc = "done"
        /\ res = Null
        /\ ~threw
        /\ probe = NotProbed
        /\ \A i \in 1..Len(calls) : calls[i] # "probeFile"
  /\ (pc = "done" /\ res # Null) => res.filePath # <<>>

C5_Witness ==
  /\ pc = "done"
  /\ env.kind = "sonarr"
  /\ env.target # Null
  /\ env.target.hasFile
  /\ env.target.episodeFileId = 0
  /\ res = Null

(* the cross-reference lookups found no series: each returned nothing or no
   tvdbId, or the tvdbId is not in the library *)
LookupFoundNoSeries ==
  /\ env.kind = "sonarr"
  /\ \A i \in 1..Len(env.lookups) : env.lookups[i] # "throws"
  /\ \/ \A i \in 1..Len(env.lookups) : env.lookups[i] \in {"null", "no_tvdbId"}
     \/ env.found.kind = "null"

(* C6: when the lookup finds no series, getEpisodePlayback resolves to null
   and does not throw, for every library size *)
C6_LookupMissIsNotFound ==
  (pc \in {"build", "done"} /\ LookupFoundNoSeries /\ env.series.kind # "throws") =>
     pc = "done" /\ res = Null /\ ~threw

C6_Witness ==
  /\ pc = "done"
  /\ env.kind = "sonarr"
  /\ env.series.kind = "list"
  /\ env.series.n >= 2
  /\ Len(env.lookups) = env.series.n
  /\ \A i \in 1..Len(env.lookups) : env.lookups[i] \in {"null", "no_tvdbId"}
  /\ res = Null
  /\ ~threw

(* the probe of the Fight Club scenario: h264 1920x1080, eac3 6 channels,
   subtitles eng and fre after them *)
FightClubProbe ==
  /\ probe.outcome = "ok"
  /\ "streams" \in DOMAIN probe.info
  /\ Len(probe.info.streams) = 4
  /\ LET st == probe.info.streams IN
       /\ st[1].codec_type = "video" /\ st[1].codec_name = <<"h","2","6","4">>
       /\ st[1].width = 1920 /\ st[1].height = 1080
       /\ st[2].codec_type = "audio" /\ st[2].codec_name = <<"e","a","c","3">>
       /\ st[2].channels = 6
       /\ st[3].codec_type = "subtitle" /\ st[3].language = "eng"
       /\ st[4].codec_type = "subtitle" /\ st[4].language = "fre"

(* C7: the Fight Club scenario yields transcode, one selected audio track,
   two subtitles with ids 0 and 1, and width 1920 *)
C7_FightClubScenario ==
  (pc = "done" /\ req.op = "movie" /\ FightClubProbe) =>
    /\ res # Null
    /\ res.needsTranscode
    /\ Len(res.audioTracks) = 1
    /\ res.audioTracks[1].selected
    /\ Len(res.subtitles) = 2
    /\ res.subtitles[1].id = 0
    /\ res.subtitles[2].id = 1
    /\ res.mediaInfo.width = 1920

(* the path the identifier resolver resolved the request's title to *)
ResolvedPath == IF env.kind = "movie" THEN env.movieFile.path ELSE env.file.path

(* sub occurs in s as a run of consecutive characters *)
Contains(s, sub) ==
  \E i \in 1..(Len(s) - Len(sub) + 1) : SubSeq(s, i, i + Len(sub) - 1) = sub

(* s with each character outside A-Z a-z 0-9 - _ . ~ written as % and two
   hexadecimal digits, for the characters of the model's paths *)
PercentEncoded(s) ==
  LET Enc(c) == CASE c = "/" -> <<"%","2","F">>
                  [] c = " " -> <<"%","2","0">>
                  [] c = ":" -> <<"%","3","A">>
                  [] OTHER   -> <<c>>
      Parts == [i \in 1..Len(s) |-> Enc(s[i])]
      Glue[i \in 0..Len(s)] == IF i = 0 THEN <<>> ELSE Glue[i - 1] \o Parts[i]
  IN Glue[Len(s)]

(* C13: no field of a playback response holds the resolved path as it is on
   disk; the stream URL carries it percent-encoded and not raw *)
C13_PathNeverExposedRaw ==
  Built =>
    /\ ~("filePath" \in DOMAIN res /\ res.filePath = ResolvedPath)
    /\ ~Contains(res.streamUrl, ResolvedPath)
    /\ Contains(res.streamUrl, PercentEncoded(ResolvedPath))

SubtitlePrefix == <<"/","a","p","i","/","m","e","d","i","a","/","s","u","b","t","i","t","l","e","/">>

(* `${n}` for 0 <= n < 10 *)
DigitString(n) == <<Digits[n + 1]>>

(* client getMoviePlayback / getEpisodePlayback: the URL a native subtitle
   track is fetched from, built from the track's streamIndex and the
   response's filePath *)
ClientSubtitleUrl(sub, filePath) ==
  SubtitlePrefix \o encodeURIComponent(DigitString(sub.streamIndex) \o <<":">> \o filePath)

(* C14: every track's streamIndex is the container index of the stream it
   was built from, and the client's subtitle URL refers to that index and
   the file *)
C14_StreamIndexIsContainerIndex ==
  Built =>
    /\ \A k \in 1..Len(res.audioTracks) :
         res.audioTracks[k].streamIndex = ProbedOfType("audio")[k].index
    /\ \A k \in 1..Len(res.subtitles) :
         /\ res.subtitles[k].streamIndex = ProbedOfType("subtitle")[k].index
         /\ ClientSubtitleUrl(res.subtitles[k], res.filePath) =
              SubtitlePrefix \o PercentEncoded(DigitString(ProbedOfType("subtitle")[k].index)
                                                 \o <<":">> \o ResolvedPath)

(* the library manager does not know the title: the movie lookup returns
   nothing, or the cross-reference lookups find no series *)
NotInLibrary ==
  \/ env.kind = "null"
  \/ LookupFoundNoSeries /\ env.series.kind # "throws"

(* the outcome of a request as its caller sees it *)
Outcome == [value |-> res, threw |-> threw]

(* C15: a title that is in the library without a file never resolves to the
   outcome a title that is not in the library resolves to, which is null
   without an exception *)
C15_NoFileDistinctFromLookupFailure ==
  /\ (pc = "done" /\ NotInLibrary) => Outcome = [value |-> Null, threw |-> FALSE]
  /\ (pc = "done" /\ TitleWithoutFile) => Outcome # [value |-> Null, threw |-> FALSE]

(* ffprobe printed a format record and a list of streams *)
ExpectedStructure(info) == "format" \in DOMAIN info /\ "streams" \in DOMAIN info

(* C16: probeFile yields null when the file is missing (ffprobe is not
   spawned), when ffprobe exits non-zero or cannot be spawned, and when its
   output is not a format record plus a stream list; it yields the media
   info otherwise *)
C16_ProbeFailsWithoutMediaInfo ==
  (pc = "done" /\ probe # NotProbed) =>
    /\ probe.outcome = "missing" => ~Spawned(probe)
    /\ probe.outcome \in {"missing", "exit_nonzero", "spawn_error", "parse_error"} =>
         probeFile(probe) = Null
    /\ probeFile(probe) # Null <=> (probe.outcome = "ok" /\ ExpectedStructure(probe.info))

(* C17: buildPlaybackInfo never throws; it returns a PlaybackInfo with
   found = TRUE when the probe gave a stream list with a video stream, and
   null in every other case *)
C17_BuildReturnsNullOnProbeFailure ==
  (pc = "done" /\ probe # NotProbed) =>
    LET hasVideo == /\ probe.outcome = "ok"
                    /\ "streams" \in DOMAIN probe.info
                    /\ \E i \in 1..Len(probe.info.streams) :
                         probe.info.streams[i].codec_type = "video"
    IN /\ ~threw
       /\ hasVideo => res # Null /\ res.found
       /\ ~hasVideo => res = Null

(* a call of the library manager made by the request failed *)
UpstreamFailed ==
  \/ env.kind = "throws"
  \/ /\ env.kind = "sonarr"
     /\ \/ env.series.kind = "throws"
        \/ \E i \in 1..Len(env.lookups) : env.lookups[i] = "throws"
        \/ env.found.kind = "throws"
        \/ env.episodes.kind = "throws"
        \/ env.file.kind \in {"fetch_throws", "not_ok"}

(* C19: a request during which a call of the library manager failed ends in
   null, without an exception *)
C19_UpstreamFailureIsNotFound ==
  (pc = "done" /\ UpstreamFailed) => res = Null /\ ~threw

(* the positions of the calls of name in the request's call log *)
CallAt(name) == {i \in 1..Len(calls) : calls[i] = name}

(* the place of a call in the order series list, cross-reference, series,
   episode list, file metadata, probe *)
Rank(name) ==
  CASE name = "getSeries"            -> 1
    [] name = "lookupSeriesByTmdbId" -> 2
    [] name = "getSeriesByTvdbId"    -> 3
    [] name = "getEpisodes"          -> 4
    [] name = "getEpisodeFilePath"   -> 5
    [] name = "probeFile"            -> 6

(* C22: getEpisodePlayback makes its calls one after the other in the order
   cross-reference, episode list, file metadata, probe; the episode list is
   requested only for a resolved series, the file metadata only for an
   episode with the requested season and episode number that has a file and
   a file id, and the file is probed only when that call returned a path *)
C22_SequentialDependentCalls ==
  (req.op = "episode" /\ pc \in {"build", "done"}) =>
    /\ \A i \in 1..Len(calls), j \in 1..Len(calls) :
         i < j => /\ Rank(calls[i]) <= Rank(calls[j])
                  /\ Rank(calls[i]) = Rank(calls[j]) => calls[i] = "lookupSeriesByTmdbId"
    /\ CallAt("getEpisodes") # {} =>
         /\ CallAt("getSeriesByTvdbId") # {}
         /\ env.found.kind = "series"
    /\ CallAt("getEpisodeFilePath") # {} =>
         /\ CallAt("getEpisodes") # {}
         /\ env.target # Null
         /\ env.target.seasonNumber = req.season
         /\ env.target.episodeNumber = req.episode
         /\ env.target.hasFile
         /\ env.target.episodeFileId # 0
    /\ CallAt("probeFile") # {} =>
         /\ CallAt("getEpisodeFilePath") # {}
         /\ env.file.kind = "ok"
         /\ env.file.path # <<>>

C22_Witness ==
  /\ pc = "done"
  /\ req.op = "episode"
  /\ calls = <<"getSeries", "lookupSeriesByTmdbId", "lookupSeriesByTmdbId",
               "getSeriesByTvdbId", "getEpisodes", "getEpisodeFilePath", "probeFile">>
  /\ res # Null

(* the series one direct resolution yields: the cross-reference lookup by
   catalog id, then the library's series of the returned id (sr) *)
DirectSeries(lookup, sr) == IF lookup = "tvdbId" /\ sr.kind = "series" THEN sr ELSE Null

(* the series the iteration over the library's series resolved *)
IteratedSeries == IF env.found.kind = "series" THEN env.found ELSE Null

(* every lookup of the request returned the same, and none failed *)
DeterministicLookups ==
  /\ \A i \in 1..Len(env.lookups) : env.lookups[i] = env.lookups[1]
  /\ \A i \in 1..Len(env.lookups) : env.lookups[i] # "throws"

(* C23: with a lookup that answers the same each time, the iteration
   resolves the series a direct lookup resolves (in an empty library no
   series has the returned id); it makes no lookup for an empty library, one
   when the first lookup matches, and one per series when none matches *)
C23_IterationEqualsDirectLookup ==
  (pc = "done" /\ env.kind = "sonarr" /\ env.series.kind = "list"
     /\ DeterministicLookups /\ env.found.kind # "throws") =>
    LET n == env.series.n
        k == Cardinality(CallAt("lookupSeriesByTmdbId"))
    IN /\ n = 0 =>
            /\ k = 0
            /\ \A o \in LookupFailures \cup {"tvdbId"} :
                 IteratedSeries = DirectSeries(o, [kind |-> "null"])
       /\ n > 0 =>
            /\ IteratedSeries = DirectSeries(env.lookups[1], env.found)
            /\ env.lookups[1] = "tvdbId" => k = 1
            /\ env.lookups[1] # "tvdbId" => k = n
       /\ IteratedSeries = Null => res = Null /\ CallAt("getEpisodes") = {}

C23_Witness ==
  /\ pc = "done"
  /\ env.kind = "sonarr"
  /\ env.series.kind = "list"
  /\ env.series.n = 2
  /\ env.lookups = <<"tvdbId">>
  /\ env.found.kind = "series"
  /\ CallAt("lookupSeriesByTmdbId") = {2}
  /\ CallAt("getEpisodes") # {}

(* C27: a probed file with a video stream and no audio stream still gets a
   PlaybackInfo; its audio codec is "unknown", its audioTracks are empty,
   needsTranscode is set and the stream URL is the transcode endpoint *)
C27_VideoWithoutAudioTranscodes ==
  (pc = "done" /\ probe.outcome = "ok" /\ "streams" \in DOMAIN probe.info
     /\ ProbedOfType("video") # <<>> /\ ProbedOfType("audio") = <<>>) =>
    /\ ~threw
    /\ res # Null
    /\ res.found
    /\ res.mediaInfo.audioCodec = <<"u","n","k","n","o","w","n">>
    /\ res.audioTracks = <<>>
    /\ res.needsTranscode
    /\ Len(res.streamUrl) > Len(TranscodePrefix)
    /\ SubSeq(res.streamUrl, 1, Len(TranscodePrefix)) =
         <<"/","a","p","i","/","m","e","d","i","a","/","t","r","a","n","s","c","o","d","e","/">>

C27_Witness ==
  /\ pc = "done"
  /\ probe.outcome = "ok"
  /\ "streams" \in DOMAIN probe.info
  /\ Len(probe.info.streams) = 2
  /\ probe.info.streams[1].codec_type = "subtitle"
  /\ probe.info.streams[2].codec_type = "video"
  /\ res # Null
  /\ res.needsTranscode
  /\ res.audioTracks = <<>>

----------------------------------------------------------------------------
(* The external-media-server adapter: route GET /movie/:tmdbId *)

(* the adaptive-streaming and the direct byte-range URL of getPlaybackInfo,
   by their components; the route passes no options *)
HlsUrl(itemId, mediaSource, playSessionId) ==
  [endpoint |-> "master.m3u8", itemId |-> itemId, MediaSourceId |-> mediaSource.Id,
   PlaySessionId |-> playSessionId, AudioStreamIndex |-> 0, SubtitleStreamIndex |-> -1,
   SubtitleMethod |-> "Encode"]

DirectUrl(itemId, mediaSource) ==
  [endpoint |-> "stream", itemId |-> itemId, MediaSourceId |-> mediaSource.Id, Static |-> TRUE]

JfAudioTrack(st, idx) ==
  [id |-> idx, streamIndex |-> st.Index,
   language |-> OrElse(st.Language, "Unknown"), languageCode |-> OrElse(st.Language, "und"),
   displayTitle |-> IF st.DisplayTitle # "" THEN [text |-> st.DisplayTitle, n |-> 0]
                    ELSE [text |-> "Audio", n |-> idx + 1],
   codec |-> st.Codec, channels |-> IF st.Channels # 0 THEN st.Channels ELSE 2,
   selected |-> (st.IsDefault \/ idx = 0)]

JfSubtitleTrack(st, idx) ==
  [id |-> idx, streamIndex |-> st.Index,
   language |-> OrElse(st.Language, "Unknown"), languageCode |-> OrElse(st.Language, "und"),
   displayTitle |-> IF st.DisplayTitle # "" THEN [text |-> st.DisplayTitle, n |-> 0]
                    ELSE [text |-> "Subtitle", n |-> idx + 1],
   format |-> st.Codec]

PlaybackStrategyFromCodecs(mediaSource) ==
  LET firstAudio == Find(mediaSource.MediaStreams, LAMBDA st : st.Type = "Audio")
  IN IF firstAudio # Null /\ firstAudio.Codec \notin {"aac", "mp3", "opus"}
     THEN "transcode" ELSE "direct"

(* playbackStrategy: mediaSource.SupportsDirectPlay ? 'direct' : 'transcode' *)
PlaybackStrategy(mediaSource) ==
  IF mediaSource.SupportsDirectPlay THEN "direct" ELSE "transcode"

(* the body of the found response *)
JfFoundResponse(radarrMovie, filePath, item, mediaSource, playSessionId) ==
  LET audio == SelectSeq(mediaSource.MediaStreams, LAMBDA st : st.Type = "Audio")
      subs  == SelectSeq(mediaSource.MediaStreams, LAMBDA st : st.Type = "Subtitle")
      video == Find(mediaSource.MediaStreams, LAMBDA st : st.Type = "Video")
      firstAudio == Find(mediaSource.MediaStreams, LAMBDA st : st.Type = "Audio")
  IN [found |-> TRUE, jellyfinItemId |-> item.Id, title |-> radarrMovie.title,
      type |-> "movie", filePath |-> filePath,
      duration |-> mediaSource.RunTimeTicks \div 10000,
      streamUrl |-> HlsUrl(item.Id, mediaSource, playSessionId),
      directStreamUrl |-> DirectUrl(item.Id, mediaSource),
      playbackStrategy |-> PlaybackStrategy(mediaSource),
      audioTracks |-> [k \in 1..Len(audio) |-> JfAudioTrack(audio[k], k - 1)],
      subtitles |-> [k \in 1..Len(subs) |-> JfSubtitleTrack(subs[k], k - 1)],
      mediaInfo |-> [width |-> IF video # Null /\ video.Width # 0 THEN video.Width ELSE 1920,
                     height |-> IF video # Null /\ video.Height # 0 THEN video.Height ELSE 1080,
                     videoCodec |-> IF video # Null THEN video.Codec ELSE "h264",
                     audioCodec |-> IF firstAudio # Null THEN firstAudio.Codec ELSE "aac",
                     container |-> mediaSource.Container]]

JfAnswer(status, body) ==
  /\ jf' = [jf EXCEPT !.pc = "done", !.status = status, !.response = body]
  /\ UNCHANGED jfServer

BestEffortRethrows(op, http) == [op |-> op, http |-> http, threw |-> http # "ok"]

(* try { await <HTTP request> } catch (error) { <log or ignore> }: the call
   resolves however the request ends *)
BestEffort(op, http) == [op |-> op, http |-> http, threw |-> FALSE]

JfSearchMissNoRescan(r, ok) ==
  /\ jf' = [jf EXCEPT !.pc = "refreshing", !.radarr = r, !.searched = TRUE, !.item = Null]
  /\ UNCHANGED jfServer

(* the item search found nothing: refreshLibrary posts /Library/Refresh; when
   the request reaches the server (ok) the server starts a scan *)
JfSearchMiss(r, ok) ==
  /\ jf' = [jf EXCEPT !.pc = "refreshing", !.radarr = r, !.searched = TRUE, !.item = Null,
                      !.refreshCalls = jf.refreshCalls + 1,
                      !.side = BestEffort("refreshLibrary",
                                          IF ok THEN "ok" ELSE "network_error")]
  /\ jfServer' = IF ok THEN [jfServer EXCEPT !.scan = "running"] ELSE jfServer

(* the route up to its first call of the external server made after the
   item search: the Radarr lookup, then findMovieByPath, whose request may
   fail (found nothing) *)
JfMovieRoute(tmdbId) ==
  /\ jf.pc = "idle"
  /\ \E r \in MovieResponses :
       CASE r.kind = "throws" ->
              /\ jf' = [jf EXCEPT !.pc = "done", !.radarr = r, !.status = 500,
                                  !.response = [error |-> "Failed to get playback info"]]
              /\ UNCHANGED jfServer
         [] r.kind = "null" \/ (r.kind = "movie" /\ (r.movieFile = Null \/ r.movieFile.path = EmptyPath)) ->
              /\ jf' = [jf EXCEPT !.pc = "done", !.radarr = r, !.status = 200,
                                  !.response = [found |-> FALSE]]
              /\ UNCHANGED jfServer
         [] OTHER ->
              \E requestOk \in BOOLEAN :
                IF requestOk /\ jfServer.indexed
                THEN /\ jf' = [jf EXCEPT !.pc = "negotiating", !.radarr = r, !.searched = TRUE,
                                         !.item = JfItem, !.negotiations = jf.negotiations + 1]
                     /\ UNCHANGED jfServer
                ELSE \E ok \in BOOLEAN : JfSearchMiss(r, ok)
  /\ UNCHANGED <<pbVars, hlsVars, extVars>>

(* refreshLibrary returned: the route answers; had refreshLibrary rejected,
   the route's catch would answer 500 *)
JfRefreshReturns ==
  /\ jf.pc = "refreshing"
  /\ IF jf.side.threw
     THEN JfAnswer(500, [error |-> "Failed to get playback info"])
     ELSE JfAnswer(200, [found |-> FALSE, message |-> "Movie not in Jellyfin library yet"])
  /\ UNCHANGED <<pbVars, hlsVars, extVars>>

(* getPlaybackInfo returned: null when the request failed or the server
   named no media source, else the URLs and the media source *)
JfNegotiated ==
  /\ jf.pc = "negotiating"
  /\ \/ JfAnswer(200, [found |-> FALSE])
     \/ \E n \in 0..MaxJfStreams : \E shapes \in [1..n -> JfStreamShapes] :
        \E direct \in BOOLEAN : \E id \in MediaSourceIds :
          LET mediaSource == [JfMediaSource(shapes, direct) EXCEPT !.Id = id]
          IN /\ jf' = [jf EXCEPT !.pc = "done", !.status = 200, !.mediaSource = mediaSource,
                                 !.response = JfFoundResponse(jf.radarr, jf.radarr.movieFile.path,
                                                              jf.item, mediaSource, "ps1")]
             /\ UNCHANGED jfServer
  /\ UNCHANGED <<pbVars, hlsVars, extVars>>

(* the response is sent *)
JfRespond ==
  /\ jf.pc = "done"
  /\ jf' = [JfIdle EXCEPT !.side = jf.side]
  /\ UNCHANGED <<jfServer, pbVars, hlsVars, extVars>>

(* the external server finishes its library scan; the file is indexed *)
JfScanComplete ==
  /\ jfServer.scan = "running"
  /\ jfServer' = [indexed |-> TRUE, scan |-> "idle"]
  /\ UNCHANGED <<jf, pbVars, hlsVars, extVars>>

(* a best-effort call is made and returns *)
SideCall(op, http) ==
  /\ jf' = [jf EXCEPT !.side = BestEffort(op, http)]
  /\ jf'.side # jf.side
  /\ UNCHANGED <<jfServer, pbVars, hlsVars, extVars>>

(* JellyfinService.reportProgress: POST /Sessions/Playing/Progress *)
reportProgress == \E http \in HttpOutcomes : SideCall("reportProgress", http)

(* JellyfinService.reportStopped: POST /Sessions/Playing/Stopped *)
reportStopped == \E http \in HttpOutcomes : SideCall("reportStopped", http)

(* client: reportJellyfinProgress posts /jellyfin/progress *)
reportJellyfinProgress == \E http \in HttpOutcomes : SideCall("reportJellyfinProgress", http)

(* client: reportJellyfinStopped posts /jellyfin/stopped *)
reportJellyfinStopped == \E http \in HttpOutcomes : SideCall("reportJellyfinStopped", http)

NextJellyfin ==
  \/ \E t \in MovieIds : JfMovieRoute(t)
  \/ JfRefreshReturns
  \/ JfNegotiated
  \/ JfRespond
  \/ JfScanComplete
  \/ reportProgress
  \/ reportStopped
  \/ reportJellyfinProgress
  \/ reportJellyfinStopped

SpecJellyfin == Init /\ [][NextJellyfin]_vars

(* C8: when the item search finds nothing, the adapter has issued one rescan
   request and no playback negotiation, answers found = FALSE, and can
   answer whether or not the scan has completed *)
C8_SearchMissRescansWithoutWaiting ==
  /\ (jf.pc \in {"refreshing", "done"} /\ jf.searched /\ jf.item = Null) =>
        jf.refreshCalls = 1 /\ jf.negotiations = 0
  /\ (jf.pc = "done" /\ jf.searched /\ jf.item = Null) =>
        jf.status = 200 /\ jf.response.found = FALSE
  /\ (jf.searched /\ jf.item = Null) => jf.pc \in {"refreshing", "done"}
  /\ jf.pc = "refreshing" => ENABLED JfRefreshReturns

C8_Witness ==
  /\ jf.pc = "done"
  /\ jf.searched
  /\ jf.item = Null
  /\ jf.refreshCalls = 1
  /\ jf.response.found = FALSE
  /\ jfServer.scan = "running"

(* C18: every best-effort call (reportProgress, reportStopped,
   refreshLibrary, and the client's reportJellyfinProgress and
   reportJellyfinStopped) resolves without rejecting however its HTTP
   request ends, and a failed rescan request leaves the route's answer a
   plain found = FALSE *)
C18_BestEffortCallsNeverReject ==
  /\ ~jf.side.threw
  /\ (jf.pc = "done" /\ jf.searched /\ jf.item = Null) => jf.status = 200

C18_Witness ==
  /\ jf.side.op = "reportProgress"
  /\ jf.side.http = "network_error"
  /\ ~jf.side.threw
  /\ jf.pc = "done"
  /\ jf.refreshCalls = 1
  /\ jf.status = 200
  /\ jfServer.scan = "idle"
  /\ ~jfServer.indexed

JfSelected == {k \in 1..Len(jf.response.audioTracks) : jf.response.audioTracks[k].selected}

(* C20: a found response of the adapter selects at most one audio track *)
C20_AdapterSelectsAtMostOne ==
  (jf.pc = "done" /\ jf.status = 200 /\ jf.response.found) => Cardinality(JfSelected) <= 1

(* C24: the found response's playbackStrategy is direct exactly when the
   media source the server chose reports direct-play support, and transcode
   otherwise; its streamUrl is the adaptive-streaming URL and its
   directStreamUrl the byte-range URL of the found item and that media
   source; a response without a media source is not a found response *)
C24_StrategyPropagatedFromServer ==
  (jf.pc = "done" /\ jf.status = 200) =>
    IF jf.mediaSource = Null
    THEN ~jf.response.found
    ELSE /\ jf.response.found
         /\ jf.response.playbackStrategy \in {"direct", "transcode"}
         /\ jf.response.playbackStrategy = "direct" <=> jf.mediaSource.SupportsDirectPlay
         /\ jf.response.streamUrl.endpoint = "master.m3u8"
         /\ jf.response.directStreamUrl.endpoint = "stream"
         /\ jf.response.streamUrl.itemId = jf.item.Id
         /\ jf.response.directStreamUrl.itemId = jf.item.Id
         /\ jf.response.streamUrl.MediaSourceId = jf.mediaSource.Id
         /\ jf.response.directStreamUrl.MediaSourceId = jf.mediaSource.Id

C24_Witness ==
  /\ jf.pc = "done"
  /\ jf.mediaSource # Null
  /\ jf.mediaSource.SupportsDirectPlay
  /\ jf.mediaSource.Id = "ms2"
  /\ jf.response.mediaInfo.audioCodec = "eac3"
  /\ jf.response.playbackStrategy = "direct"
  /\ jf.response.directStreamUrl.MediaSourceId = "ms2"

----------------------------------------------------------------------------
(* The external-media-server adapter: JellyfinService.getSubtitles *)

SubtitleUrlAlwaysConverted(stream, itemId, mediaSourceId) ==
  [endpoint |-> "Stream.vtt", itemId |-> itemId, mediaSourceId |-> mediaSourceId,
   index |-> stream.Index]

(* url: stream.IsExternal ? stream.Path || ''
        : `${JELLYFIN_URL}/Videos/${itemId}/${mediaSourceId}/Subtitles/${stream.Index}/Stream.vtt` *)
SubtitleUrl(stream, itemId, mediaSourceId) ==
  IF stream.IsExternal
  THEN [endpoint |-> "file", path |-> stream.Path]
  ELSE [endpoint |-> "Stream.vtt", itemId |-> itemId, mediaSourceId |-> mediaSourceId,
        index |-> stream.Index]

SubtitleEntry(stream, itemId, mediaSourceId) ==
  [index |-> stream.Index,
   language |-> OrElse(stream.Language, "Unknown"),
   displayTitle |-> IF stream.DisplayTitle # "" THEN [text |-> stream.DisplayTitle, n |-> 0]
                    ELSE [text |-> "Track", n |-> stream.Index],
   isDefault |-> stream.IsDefault,
   isForced |-> FALSE,
   url |-> SubtitleUrl(stream, itemId, mediaSourceId)]

(* the value getSubtitles resolves to once its request has ended *)
SubtitlesOf(itemId, mediaSourceId, http, MediaSources) ==
  IF http # "ok" THEN <<>>
  ELSE LET mediaSource == IF ~MediaSources.present THEN Null
                          ELSE Find(MediaSources.list, LAMBDA ms : ms.Id = mediaSourceId)
       IN IF mediaSource = Null THEN <<>>
          ELSE LET streams == SelectSeq(mediaSource.MediaStreams,
                                        LAMBDA stream : stream.Type = "Subtitle")
               IN [k \in 1..Len(streams) |-> SubtitleEntry(streams[k], itemId, mediaSourceId)]

(* what GET /Items/:id may answer: no MediaSources, none, or the item's
   media source, possibly after another one *)
ItemMediaSources ==
  {NoMediaSources, [present |-> TRUE, list |-> <<>>]}
  \cup UNION { UNION { { [present |-> TRUE,
                          list |-> <<[JfMediaSource(shapes, TRUE) EXCEPT !.Id = id]>>],
                         [present |-> TRUE,
                          list |-> <<[JfMediaSource(<<>>, FALSE) EXCEPT !.Id = other],
                                     [JfMediaSource(shapes, TRUE) EXCEPT !.Id = id]>>] }
                       : shapes \in [1..n -> JfStreamShapes] }
               : <<n, id, other>> \in { t \in (0..MaxJfStreams) \X MediaSourceIds \X MediaSourceIds :
                                          t[2] # t[3] } }

getSubtitles(itemId, mediaSourceId) ==
  /\ jfSubs.pc = "idle"
  /\ \E http \in HttpOutcomes :
     \E MediaSources \in IF http = "ok" THEN ItemMediaSources ELSE {NoMediaSources} :
       jfSubs' = [pc |-> "done", itemId |-> itemId, mediaSourceId |-> mediaSourceId,
                  http |-> http, MediaSources |-> MediaSources,
                  result |-> SubtitlesOf(itemId, mediaSourceId, http, MediaSources)]
  /\ UNCHANGED <<pbVars, jfVars, hlsVars, ffprobe, client, seasonView, auth>>

(* the caller has taken the list *)
SubtitlesReturned ==
  /\ jfSubs.pc = "done"
  /\ jfSubs' = SubsIdle
  /\ UNCHANGED <<pbVars, jfVars, hlsVars, ffprobe, client, seasonView, auth>>

NextSubtitles ==
  \/ \E mediaSourceId \in MediaSourceIds : getSubtitles(JfItem.Id, mediaSourceId)
  \/ SubtitlesReturned

SpecSubtitles == Init /\ [][NextSubtitles]_vars

(* the media source the call asked for, as the server reported it *)
RequestedSource ==
  LET listed == jfSubs.MediaSources.list
  IN IF jfSubs.http # "ok" \/ ~jfSubs.MediaSources.present THEN Null
     ELSE IF \E i \in 1..Len(listed) : listed[i].Id = jfSubs.mediaSourceId
          THEN listed[CHOOSE i \in 1..Len(listed) : listed[i].Id = jfSubs.mediaSourceId]
          ELSE Null

(* C25: getSubtitles returns one entry per subtitle stream of the requested
   media source and none for other streams; a sidecar's URL is its file
   location, an embedded stream's URL is the conversion endpoint of the
   item, the media source and the stream's server index; an unknown media
   source and a failed request give the empty list *)
C25_OneEntryPerSubtitleStream ==
  jfSubs.pc = "done" =>
    IF RequestedSource = Null
    THEN jfSubs.result = <<>>
    ELSE LET streams == RequestedSource.MediaStreams
             SubIdx  == {i \in 1..Len(streams) : streams[i].Type = "Subtitle"}
         IN /\ Len(jfSubs.result) = Cardinality(SubIdx)
            /\ \A i \in SubIdx :
                 /\ Cardinality({k \in 1..Len(jfSubs.result) :
                                   jfSubs.result[k].index = streams[i].Index}) = 1
                 /\ \A k \in 1..Len(jfSubs.result) :
                      jfSubs.result[k].index = streams[i].Index =>
                        jfSubs.result[k].url =
                          IF streams[i].IsExternal
                          THEN [endpoint |-> "file", path |-> streams[i].Path]
                          ELSE [endpoint |-> "Stream.vtt", itemId |-> jfSubs.itemId,
                                mediaSourceId |-> jfSubs.mediaSourceId,
                                index |-> streams[i].Index]
            /\ \A k \in 1..Len(jfSubs.result) :
                 \E i \in SubIdx : jfSubs.result[k].index = streams[i].Index

C25_Witness ==
  /\ jfSubs.pc = "done"
  /\ RequestedSource # Null
  /\ Len(RequestedSource.MediaStreams) = 3
  /\ RequestedSource.MediaStreams[1].Type = "Video"
  /\ Len(jfSubs.result) = 2
  /\ jfSubs.result[1].url = [endpoint |-> "file", path |-> "/subs/F C.srt"]
  /\ jfSubs.result[2].url.endpoint = "Stream.vtt"
  /\ jfSubs.result[2].url.index = 2

----------------------------------------------------------------------------
(* probeFile, event by event: the promise executor spawns ffprobe and
   registers the handlers of the child's 'close' and 'error' events; the
   handlers run when the event loop delivers the events *)

(* resolve(v): the first call settles the promise, later calls change nothing *)
Resolve(f, r) ==
  [f EXCEPT !.resolves = Append(@, r),
            !.promise = IF @.state = "pending"
                        THEN [state |-> "resolved", value |-> probeFile(r)] ELSE @]

CloseResultNoCatch(code, stdout) ==
  IF code # 0 THEN [outcome |-> "exit_nonzero"]
  ELSE IF ~stdout.parses THEN [outcome |-> "uncaught"]
  ELSE ProbeOk(stdout.info)

(* the 'close' handler: null for a non-zero exit code, else JSON.parse of the
   output inside try/catch, null when it throws *)
CloseResult(code, stdout) ==
  IF code # 0 THEN [outcome |-> "exit_nonzero"]
  ELSE IF ~stdout.parses THEN [outcome |-> "parse_error"]
  ELSE ProbeOk(stdout.info)

(* probeFile(filePath): a missing file resolves null without a child, else
   ffprobe is spawned once *)
probeFileCall(exists) ==
  /\ ffprobe.pc = "idle"
  /\ ffprobe' = IF ~exists
                THEN Resolve([ffprobe EXCEPT !.pc = "waiting", !.exists = FALSE],
                             [outcome |-> "missing"])
                ELSE [ffprobe EXCEPT !.pc = "waiting", !.exists = TRUE,
                                     !.spawns = @ + 1, !.child = "running"]
  /\ UNCHANGED <<pbVars, jfVars, hlsVars, jfSubs, client, seasonView, auth>>

(* ffprobe cannot be started: the child emits 'error' *)
SpawnFails ==
  /\ ffprobe.child = "running"
  /\ ffprobe' = [ffprobe EXCEPT !.child = "failed", !.code = 1, !.queue = @ \cup {"error"}]
  /\ UNCHANGED <<pbVars, jfVars, hlsVars, jfSubs, client, seasonView, auth>>

(* a child that failed to start may emit 'close' as well, before or after
   its 'error' is handled *)
FailedChildCloses ==
  /\ ffprobe.child = "failed"
  /\ "close" \notin ffprobe.queue \cup ffprobe.handled
  /\ ffprobe' = [ffprobe EXCEPT !.queue = @ \cup {"close"}]
  /\ UNCHANGED <<pbVars, jfVars, hlsVars, jfSubs, client, seasonView, auth>>

(* ffprobe exits and its output closes: the child emits 'close' *)
ChildExits(code, stdout) ==
  /\ ffprobe.child = "running"
  /\ ffprobe' = [ffprobe EXCEPT !.child = "exited", !.code = code, !.stdout = stdout,
                                !.queue = @ \cup {"close"}]
  /\ UNCHANGED <<pbVars, jfVars, hlsVars, jfSubs, client, seasonView, auth>>

(* ffprobe.on('close', ...) *)
OnClose ==
  /\ "close" \in ffprobe.queue
  /\ LET r == CloseResult(ffprobe.code, ffprobe.stdout)
         f == [ffprobe EXCEPT !.queue = @ \ {"close"}, !.handled = @ \cup {"close"}]
     IN ffprobe' = IF r.outcome = "uncaught" THEN f ELSE Resolve(f, r)
  /\ UNCHANGED <<pbVars, jfVars, hlsVars, jfSubs, client, seasonView, auth>>

(* ffprobe.on('error', ...) *)
OnError ==
  /\ "error" \in ffprobe.queue
  /\ ffprobe' = Resolve([ffprobe EXCEPT !.queue = @ \ {"error"}, !.handled = @ \cup {"error"}],
                        [outcome |-> "spawn_error"])
  /\ UNCHANGED <<pbVars, jfVars, hlsVars, jfSubs, client, seasonView, auth>>

(* the caller awaiting probeFile continues with the promise's value *)
ProbeDelivered ==
  /\ ffprobe.pc = "waiting"
  /\ ffprobe.promise.state = "resolved"
  /\ ffprobe' = [ffprobe EXCEPT !.pc = "delivered"]
  /\ UNCHANGED <<pbVars, jfVars, hlsVars, jfSubs, client, seasonView, auth>>

(* the call is over and the child has nothing more to say *)
ProbeOver ==
  /\ ffprobe.pc = "delivered"
  /\ ffprobe.queue = {}
  /\ ffprobe' = ProbeIdle
  /\ UNCHANGED <<pbVars, jfVars, hlsVars, jfSubs, client, seasonView, auth>>

NextProbe ==
  \/ \E exists \in BOOLEAN : probeFileCall(exists)
  \/ SpawnFails
  \/ FailedChildCloses
  \/ \E code \in {0, 1} : \E stdout \in ProbeOutputs : ChildExits(code, stdout)
  \/ OnClose
  \/ OnError
  \/ ProbeDelivered
  \/ ProbeOver

(* the event loop runs the handler of every emitted event, and the
   continuation of a settled promise *)
SpecProbeLive ==
  /\ Init /\ [][NextProbe]_vars
  /\ WF_vars(OnClose) /\ WF_vars(OnError) /\ WF_vars(ProbeDelivered)

(* what holds in every state of a probeFile call *)
ProbeSafe ==
  /\ ffprobe.spawns <= 1
  /\ (ffprobe.pc # "idle" /\ ~ffprobe.exists) => (ffprobe.spawns = 0 /\ ffprobe.child = "none")
  /\ ffprobe.promise.state \in {"pending", "resolved"}
  /\ ffprobe.handled # {} => ffprobe.promise.state = "resolved"
  /\ ffprobe.promise.state = "resolved" =>
       /\ ffprobe.resolves # <<>>
       /\ ffprobe.promise.value =
            (IF ffprobe.resolves[1].outcome = "ok" THEN ffprobe.resolves[1].info ELSE Null)
  /\ ffprobe.pc = "delivered" => ffprobe.promise.state = "resolved"

(* C26: a probeFile call spawns ffprobe at most once, and not at all for a
   missing file; its promise is never rejected; once the child has emitted
   'close' or 'error' the result is delivered to the caller; the first
   resolve decides the result when both handlers run *)
C26_ProbeSpawnsOnceAndDelivers ==
  /\ []ProbeSafe
  /\ (ffprobe.queue # {}) ~> (ffprobe.pc = "delivered")

C26_Witness ==
  /\ ffprobe.pc = "delivered"
  /\ ffprobe.spawns = 1
  /\ ffprobe.handled = {"close", "error"}
  /\ Len(ffprobe.resolves) = 2
  /\ ffprobe.resolves[1].outcome = "spawn_error"
  /\ ffprobe.promise.value = Null

----------------------------------------------------------------------------
(* The web client: mediaService.getMoviePlayback / getEpisodePlayback *)

(* import.meta.env.VITE_TORRENT_API_URL || 'http://localhost:3001' *)
API_BASE == <<"h","t","t","p",":","/","/","l","o","c","a","l","h","o","s","t",":","3","0","0","1">>

(* localStorage.getItem(TOKEN_KEY): <<>> stands for null *)
Tokens == { <<>>, <<"t","k","1">>, <<"a"," ","b">> }

(* token ? `?token=${encodeURIComponent(token)}` : '' *)
AuthParam(token) ==
  IF token = <<>> THEN <<>>
  ELSE <<"?","t","o","k","e","n","=">> \o encodeURIComponent(token)

(* url.startsWith('/') ? `${API_BASE}${url}${authParam}` : url *)
Absolute(url, authParam) ==
  IF url # <<>> /\ url[1] = "/" THEN API_BASE \o url \o authParam ELSE url

IsJellyfinNever(data) == FALSE

(* response.data.streamingBackend === 'jellyfin' *)
IsJellyfin(data) == data.streamingBackend = "jellyfin"

JellyfinBase == <<"h","t","t","p",":","/","/","j","f">>

(* the subtitles of a native record have no url; <<>> stands for an absent
   url, directStreamUrl or streamingBackend *)
NativeSubtitles(n) == [k \in 1..n |-> [id |-> k - 1, streamIndex |-> k - 1, url |-> <<>>]]

JellyfinSubtitles(n) ==
  [k \in 1..n |-> [id |-> k - 1, streamIndex |-> k,
                   url |-> IF k = 1 THEN <<"/","s","u","b","s","/","F",".","s","r","t">>
                           ELSE JellyfinBase \o <<"/","S","t","r","e","a","m",".","v","t","t">>]]

(* the found records the server sends: those of buildPlaybackInfo, with or
   without the fields added for direct play and the backend name, and those
   of the external-media-server backend *)
NativeRecords ==
  { [found |-> TRUE, streamingBackend |-> b, filePath |-> f,
     streamUrl |-> p \o encodeURIComponent(f), directStreamUrl |-> d,
     hasSubtitles |-> h, subtitles |-> NativeSubtitles(IF h THEN n ELSE 0)]
    : b \in {"", "native"}, f \in {MoviePath, EpisodePath},
      p \in {TranscodePrefix, StreamPrefix},
      d \in {<<>>, StreamPrefix \o encodeURIComponent(EpisodePath)},
      h \in BOOLEAN, n \in 0..MaxClientSubs }

JellyfinRecords ==
  { [found |-> TRUE, streamingBackend |-> "jellyfin", filePath |-> MoviePath,
     streamUrl |-> JellyfinBase \o <<"/","m","a","s","t","e","r",".","m","3","u","8">>,
     directStreamUrl |-> JellyfinBase \o <<"/","s","t","r","e","a","m">>,
     hasSubtitles |-> TRUE, subtitles |-> JellyfinSubtitles(n)]
    : n \in 0..MaxClientSubs }

(* how api.get ends: rejected (network, status outside 2xx), a body that is
   not a record, found = false, or a found record *)
ServerResponses ==
  { [kind |-> k] : k \in {"network_error", "status_500", "status_401", "no_body"} }
  \cup { [kind |-> "ok", data |-> [found |-> FALSE]] }
  \cup { [kind |-> "ok", data |-> d] : d \in NativeRecords \cup JellyfinRecords }

(* the body of getMoviePlayback and of getEpisodePlayback after api.get:
   every exception ends in the catch, which returns null *)
ClientPlayback(response, token) ==
  IF response.kind # "ok" THEN Null
  ELSE IF ~response.data.found THEN Null
  ELSE LET data == response.data
           authParam == AuthParam(token)
       IN IF IsJellyfin(data) THEN data
          ELSE [data EXCEPT
                  !.streamUrl = Absolute(@, authParam),
                  !.directStreamUrl = Absolute(@, authParam),
                  !.subtitles =
                    IF data.hasSubtitles
                    THEN [k \in 1..Len(data.subtitles) |->
                            [data.subtitles[k] EXCEPT
                               !.url = Absolute(ClientSubtitleUrl(data.subtitles[k], data.filePath),
                                                authParam)]]
                    ELSE @]

ClientCall(op) ==
  /\ client.pc = "idle"
  /\ \E token \in Tokens : \E response \in ServerResponses :
       client' = [pc |-> "done", op |-> op, token |-> token, response |-> response,
                  result |-> ClientPlayback(response, token), threw |-> FALSE]
  /\ UNCHANGED <<pbVars, jfVars, hlsVars, jfSubs, ffprobe, seasonView, auth>>

(* client getMoviePlayback(tmdbId): GET /movie/:tmdbId *)
clientGetMoviePlayback == ClientCall("getMoviePlayback")

(* client getEpisodePlayback(showTmdbId, season, episode): GET /episode/... *)
clientGetEpisodePlayback == ClientCall("getEpisodePlayback")

(* the player has taken the result *)
ClientReturned ==
  /\ client.pc = "done"
  /\ client' = ClientIdle
  /\ UNCHANGED <<pbVars, jfVars, hlsVars, jfSubs, ffprobe, seasonView, auth>>

NextClient ==
  \/ clientGetMoviePlayback
  \/ clientGetEpisodePlayback
  \/ ClientReturned

SpecClient == Init /\ [][NextClient]_vars

(* url is base, then rel, then the token parameter when a token is stored *)
MadeAbsolute(url, rel, token) ==
  LET param == IF token = <<>> THEN <<>>
               ELSE <<"?","t","o","k","e","n","=">> \o PercentEncoded(token)
  IN url = <<"h","t","t","p",":","/","/","l","o","c","a","l","h","o","s","t",":","3","0","0","1">>
             \o rel \o param

(* C28: the client's playback calls never throw; they return null when the
   request fails or the record is not found; the jellyfin record is
   returned as sent; in a native record every relative stream URL is
   prefixed with the API base and followed by the token parameter when a
   token is stored, every subtitle gets such a URL, and all else is as sent *)
C28_ClientPlaybackNeverThrows ==
  client.pc = "done" =>
    /\ ~client.threw
    /\ IF client.response.kind # "ok" \/ ~client.response.data.found
       THEN client.result = Null
       ELSE LET sent == client.response.data
                got  == client.result
            IN IF sent.streamingBackend = "jellyfin" THEN got = sent
               ELSE /\ got # Null
                    /\ got.found /\ got.filePath = sent.filePath
                    /\ MadeAbsolute(got.streamUrl, sent.streamUrl, client.token)
                    /\ IF sent.directStreamUrl = <<>> THEN got.directStreamUrl = <<>>
                       ELSE MadeAbsolute(got.directStreamUrl, sent.directStreamUrl, client.token)
                    /\ Len(got.subtitles) = Len(sent.subtitles)
                    /\ \A k \in 1..Len(got.subtitles) :
                         /\ got.subtitles[k].streamIndex = sent.subtitles[k].streamIndex
                         /\ MadeAbsolute(got.subtitles[k].url,
                                         SubtitlePrefix \o PercentEncoded(
                                           <<Digits[sent.subtitles[k].streamIndex + 1], ":">>
                                           \o sent.filePath),
                                         client.token)

C28_Witness ==
  /\ client.pc = "done"
  /\ client.op = "getEpisodePlayback"
  /\ client.token = <<"a"," ","b">>
  /\ client.response.kind = "ok"
  /\ client.response.data.found
  /\ client.response.data.streamingBackend = ""
  /\ client.response.data.directStreamUrl # <<>>
  /\ Len(client.result.subtitles) = 2
  /\ client.result.streamUrl # client.response.data.streamUrl

----------------------------------------------------------------------------
(* SeasonEpisodes.vue: the download status of the series shown *)

LoadsInFlight(v) ==
  LET Sum[i \in 0..MaxSonarrId] == IF i = 0 THEN 0 ELSE Sum[i - 1] + v.loads[i]
  IN Sum[MaxSonarrId]

(* loadDownloadStatus up to its await: nothing without a series id or when
   the status is loaded, else both requests for props.sonarrSeriesId are sent *)
loadDownloadStatus(v) ==
  IF v.sonarrSeriesId = 0 \/ v.downloadStatusLoaded THEN v
  ELSE [v EXCEPT !.loads[v.sonarrSeriesId] = @ + 1]

(* onMounted(() => loadDownloadStatus()) *)
onMounted(id) ==
  /\ ~seasonView.mounted
  /\ seasonView' = loadDownloadStatus([seasonView EXCEPT !.mounted = TRUE, !.sonarrSeriesId = id])
  /\ UNCHANGED <<pbVars, jfVars, hlsVars, jfSubs, ffprobe, client, auth>>

(* the parent passes another sonarrSeriesId; watch: a defined id clears
   downloadStatusLoaded and loads again *)
watchSonarrSeriesId(newId) ==
  /\ seasonView.mounted
  /\ newId # seasonView.sonarrSeriesId
  /\ newId # 0 => LoadsInFlight(seasonView) < MaxLoads
  /\ seasonView' =
       IF newId # 0
       THEN loadDownloadStatus([seasonView EXCEPT !.sonarrSeriesId = newId,
                                                  !.downloadStatusLoaded = FALSE])
       ELSE [seasonView EXCEPT !.sonarrSeriesId = newId]
  /\ UNCHANGED <<pbVars, jfVars, hlsVars, jfSubs, ffprobe, client, auth>>

(* both requests of a load for series id have answered: the continuation of
   the await writes the refs; seriesDetails may be null *)
LoadResolves(id, hasDetails) ==
  /\ seasonView.loads[id] > 0
  /\ seasonView' = [seasonView EXCEPT
                      !.loads[id] = @ - 1,
                      !.sonarrSeasons = IF hasDetails THEN id ELSE @,
                      !.sonarrEpisodes = id,
                      !.downloadStatusLoaded = TRUE]
  /\ UNCHANGED <<pbVars, jfVars, hlsVars, jfSubs, ffprobe, client, auth>>

(* one of the requests rejected: the catch logs, the refs stay *)
LoadRejects(id) ==
  /\ seasonView.loads[id] > 0
  /\ seasonView' = [seasonView EXCEPT !.loads[id] = @ - 1]
  /\ UNCHANGED <<pbVars, jfVars, hlsVars, jfSubs, ffprobe, client, auth>>

NextSeason ==
  \/ \E id \in 0..MaxSonarrId : onMounted(id)
  \/ \E newId \in 0..MaxSonarrId : watchSonarrSeriesId(newId)
  \/ \E id \in SonarrIds : \E hasDetails \in BOOLEAN : LoadResolves(id, hasDetails)
  \/ \E id \in SonarrIds : LoadRejects(id)

SpecSeason == Init /\ [][NextSeason]_vars

(* C29: once the response for the current sonarrSeriesId has written the
   season statistics and the episode list, a response for another,
   earlier id does not overwrite them *)
C29_StaleResponseNeverOverwrites ==
  [][\A id \in SonarrIds :
       (/\ seasonView'.loads[id] < seasonView.loads[id]
        /\ id # seasonView.sonarrSeriesId
        /\ seasonView.downloadStatusLoaded
        /\ seasonView.sonarrEpisodes = seasonView.sonarrSeriesId
        /\ seasonView.sonarrSeasons = seasonView.sonarrSeriesId)
       => /\ seasonView'.sonarrEpisodes = seasonView.sonarrEpisodes
          /\ seasonView'.sonarrSeasons = seasonView.sonarrSeasons]_vars

----------------------------------------------------------------------------
(* setupAuthInterceptor: the interceptors of the web client's HTTP client *)

SOFT_FAILURE_ENDPOINTS ==
  { <<"/","a","p","i","/","p","r","o","g","r","e","s","s">>,
    <<"/","c","o","n","t","i","n","u","e","-","w","a","t","c","h","i","n","g">> }

IsSoftFailureNever(requestUrl) == FALSE

(* SOFT_FAILURE_ENDPOINTS.some(endpoint => requestUrl.includes(endpoint)) *)
IsSoftFailure(requestUrl) ==
  \E endpoint \in SOFT_FAILURE_ENDPOINTS :
    \E i \in 1..(Len(requestUrl) - Len(endpoint) + 1) :
      SubSeq(requestUrl, i, i + Len(endpoint) - 1) = endpoint

(* error.config?.url || '': <<>> stands for an error without a config *)
RequestUrls ==
  { <<>>,
    <<"/","m","o","v","i","e","/","5","5","0">>,
    <<"/","a","p","i","/","p","r","o","g","r","e","s","s","/","5","5","0">>,
    <<"/","a","p","i","/","p","r","o","g","r","e","s">>,
    <<"/","a","p","i","/","m","e","d","i","a","/","c","o","n","t","i","n","u","e","-","w","a","t","c","h","i","n","g">> }

(* error.response?.status: 0 stands for an error without a response *)
AxiosErrors == { [status |-> st, url |-> u] : st \in {0, 401, 403, 404, 500}, u \in RequestUrls }

(* the user logs in: the store holds a token and the router leaves login *)
login(token) ==
  /\ auth.token = <<>>
  /\ auth' = [token |-> token, route |-> "home", last |-> [kind |-> "login"]]
  /\ UNCHANGED <<pbVars, jfVars, hlsVars, jfSubs, ffprobe, client, seasonView>>

(* the user opens another page *)
navigate(route) ==
  /\ auth.token # <<>>
  /\ route # auth.route
  /\ auth' = [auth EXCEPT !.route = route, !.last = [kind |-> "navigate"]]
  /\ UNCHANGED <<pbVars, jfVars, hlsVars, jfSubs, ffprobe, client, seasonView>>

(* request interceptor: Authorization is set when the store holds a token *)
requestInterceptor(url) ==
  /\ auth' = [auth EXCEPT !.last = [kind |-> "request", url |-> url,
                                    Authorization |-> IF auth.token # <<>>
                                                      THEN <<"B","e","a","r","e","r"," ">> \o auth.token
                                                      ELSE <<>>]]
  /\ UNCHANGED <<pbVars, jfVars, hlsVars, jfSubs, ffprobe, client, seasonView>>

(* response interceptor, fulfilled: the response is passed on *)
responseFulfilled ==
  /\ auth' = [auth EXCEPT !.last = [kind |-> "response", rejected |-> FALSE]]
  /\ UNCHANGED <<pbVars, jfVars, hlsVars, jfSubs, ffprobe, client, seasonView>>

(* response interceptor, rejected: a 401 of an endpoint that is not a soft
   failure logs out and pushes the login route; the error is rejected on *)
responseRejected(error) ==
  /\ LET logsOut == error.status = 401 /\ ~IsSoftFailure(error.url)
     IN auth' = [token |-> IF logsOut THEN <<>> ELSE auth.token,
                 route |-> IF logsOut THEN "login" ELSE auth.route,
                 last  |-> [kind |-> "error", error |-> error, rejected |-> TRUE,
                            passed |-> error,
                            called |-> IF logsOut THEN <<"logout", "push login">> ELSE <<>>]]
  /\ UNCHANGED <<pbVars, jfVars, hlsVars, jfSubs, ffprobe, client, seasonView>>

NextAuth ==
  \/ \E token \in Tokens \ {<<>>} : login(token)
  \/ \E route \in {"home", "watch"} : navigate(route)
  \/ \E url \in RequestUrls : requestInterceptor(url)
  \/ responseFulfilled
  \/ \E error \in AxiosErrors : responseRejected(error)

SpecAuth == Init /\ [][NextAuth]_vars

(* the error is a 401 whose request URL names no soft-failure endpoint *)
Critical(error) ==
  /\ error.status = 401
  /\ ~Contains(error.url, <<"/","a","p","i","/","p","r","o","g","r","e","s","s">>)
  /\ ~Contains(error.url, <<"/","c","o","n","t","i","n","u","e","-","w","a","t","c","h","i","n","g">>)

(* C30: the response interceptor logs out and goes to the login route
   exactly for a 401 whose request URL contains neither /api/progress nor
   /continue-watching; any other failed response leaves token and route as
   they were; the error is always rejected on to the caller *)
C30_LogoutExactlyOnCritical401 ==
  [][auth'.last.kind = "error" =>
       /\ auth'.last.rejected
       /\ auth'.last.passed = auth'.last.error
       /\ IF Critical(auth'.last.error)
          THEN /\ auth'.last.called = <<"logout", "push login">>
               /\ auth'.token = <<>>
               /\ auth'.route = "login"
          ELSE /\ auth'.last.called = <<>>
               /\ auth'.token = auth.token
               /\ auth'.route = auth.route]_vars

C30_Witness ==
  /\ auth.last.kind = "error"
  /\ auth.last.error.status = 401
  /\ auth.last.error.url = <<"/","a","p","i","/","p","r","o","g","r","e","s">>
  /\ auth.last.called = <<"logout", "push login">>
  /\ auth.token = <<>>
  /\ auth.route = "login"

----------------------------------------------------------------------------
(* The streaming session manager (local-transcode path).  The client calls
   are startHlsSession, seekHlsSession and stopHlsSession; the manager
   behind /hls/start, /hls/:id/seek and DELETE /hls/:id follows the state
   machine Created -> Running -> (Seeking -> Running)* -> Stopped. *)

(* the live transcoder processes of session sid *)
LiveProcs(ps, sid) == {p \in ps.live : p.sid = sid}

KillProcsOfNobody(ps, sid) == ps

(* terminate every live process of session sid *)
KillProcs(ps, sid) == [ps EXCEPT !.live = {p \in ps.live : p.sid # sid}]

SpawnTranscoderKeepsPrior(ps, sid, offset) ==
  [next |-> ps.next + 1, cap |-> ps.cap,
   live |-> ps.live \cup {[pid |-> ps.next, sid |-> sid, offset |-> offset]}]

(* start a transcoder for session sid at offset: the prior one is fully
   stopped first; process ids are never reused *)
SpawnTranscoder(ps, sid, offset) ==
  [next |-> ps.next + 1, cap |-> ps.cap,
   live |-> KillProcs(ps, sid).live \cup {[pid |-> ps.next, sid |-> sid, offset |-> offset]}]

(* the process id of a live process of session sid, 0 when it has none *)
PriorOf(sid) ==
  IF LiveProcs(procs, sid) = {} THEN 0 ELSE (CHOOSE p \in LiveProcs(procs, sid) : TRUE).pid

(* the manager creates a session under a fresh identifier *)
FreshSid == CHOOSE sid \in SessionIds : hls[sid].state = "none" /\
                                         \A o \in SessionIds : hls[o].state = "none" => sid <= o

SessionsOfNobody(h, pair) == {}

(* the active sessions the session map h holds for a (file, client) pair *)
SessionsOf(h, pair) ==
  {sid \in SessionIds : h[sid].state \in ActiveStates /\ h[sid].pair = pair}

(* the number of requests in flight *)
Inflight == Cardinality({pk \in Pairs \X (1..MaxInflight) : pk[2] <= hlsReq[pk[1]].n})

(* one request for pair is taken from the requests in flight; the others for
   the pair raced with it when it made the manager create a session *)
Served(pair, creates) ==
  [hlsReq EXCEPT ![pair] = [n |-> @.n - 1, raced |-> (@.n > 1) /\ (creates \/ @.raced)]]

SlotFreeAlways(ps, sid) == TRUE

(* a transcoder may be started for session sid: the processes of the other
   sessions are fewer than the cap *)
SlotFree(ps, sid) == Cardinality(ps.live \ LiveProcs(ps, sid)) < ps.cap

(* the server starts: the manager reads its configuration once *)
HlsConfigure(cap) ==
  /\ procs.cap = 0
  /\ procs' = [procs EXCEPT !.cap = cap]
  /\ UNCHANGED <<hls, hlsLog, hlsReq, pbVars, jfVars, extVars>>

(* client: POST /hls/start with filePath and startTime.  The request fails
   before it reaches the server (the client gets null), or is in flight to
   the manager *)
startHlsSession(pair) ==
  /\ \E delivered \in BOOLEAN :
       IF delivered
       THEN /\ procs.cap # 0
            /\ Inflight < MaxInflight
            /\ hlsReq' = [hlsReq EXCEPT ![pair] = [n |-> @.n + 1, raced |-> FALSE]]
       ELSE UNCHANGED hlsReq
  /\ UNCHANGED <<hls, procs, hlsLog, pbVars, jfVars, extVars>>

(* manager: serve a start request in flight for pair, in one step of the
   event loop: look the pair up in the session map, then create a session,
   reuse the pair's active session, or supersede it.  The client learns the
   session identifier from the answer, or gets null when the answer is lost. *)
HlsCreateSession(pair, startTime) ==
  /\ hlsReq[pair].n > 0
  /\ LET existing == SessionsOf(hls, pair)
         raced    == hlsReq[pair].raced
         created  == [state |-> "created", offset |-> startTime, pair |-> pair]
     IN   \/ /\ existing = {}
             /\ \E sid \in SessionIds : hls[sid].state = "none"
             /\ hls' = [hls EXCEPT ![FreshSid] = created]
             /\ hlsLog' = [op |-> "create", sid |-> FreshSid, prior |-> 0, raced |-> raced]
             /\ hlsReq' = Served(pair, TRUE)
             /\ UNCHANGED procs
          \/ /\ existing # {}
             /\ LET sid == CHOOSE x \in existing : TRUE IN
                  /\ hls' = hls
                  /\ hlsLog' = [op |-> "reuse", sid |-> sid, prior |-> 0, raced |-> raced]
             /\ hlsReq' = Served(pair, FALSE)
             /\ UNCHANGED procs
          \/ /\ existing # {}
             /\ \E sid \in SessionIds : hls[sid].state = "none"
             /\ LET old == CHOOSE x \in existing : TRUE IN
                  /\ procs' = KillProcs(procs, old)
                  /\ hls' = [hls EXCEPT ![old] = Stopped,
                                        ![FreshSid] = created]
                  /\ hlsLog' = [op |-> "supersede", sid |-> FreshSid, prior |-> PriorOf(old),
                                raced |-> raced]
             /\ hlsReq' = Served(pair, TRUE)
  /\ UNCHANGED <<pbVars, jfVars, extVars>>

(* manager: a transcoder is started for the session, on its first segment
   request (Created) or again while it is Running *)
HlsStartTranscoder(sid) ==
  /\ hls[sid].state \in {"created", "running"}
  /\ SlotFree(procs, sid)
  /\ procs.next <= MaxProcs
  /\ procs' = SpawnTranscoder(procs, sid, hls[sid].offset)
  /\ hls' = [hls EXCEPT ![sid].state = "running"]
  /\ hlsLog' = [op |-> "spawn", sid |-> sid, prior |-> PriorOf(sid), raced |-> FALSE]
  /\ UNCHANGED <<hlsReq, pbVars, jfVars, extVars>>

TearDownAtRespawn(ps, sid) == ps

(* a seek tears the session's active transcoder down at once, before the
   new one is spawned *)
TearDown(ps, sid) == KillProcs(ps, sid)

(* client: POST /hls/:id/seek; the manager tears down the transcoder of a
   running session *)
seekHlsSession(sid, position) ==
  /\ hls[sid].state \in ActiveStates \cup {"stopped"}
  /\ \E delivered \in BOOLEAN :
       IF delivered /\ hls[sid].state = "running"
       THEN /\ procs' = TearDown(procs, sid)
            /\ hls' = [hls EXCEPT ![sid].state = "seeking", ![sid].offset = position]
            /\ hlsLog' = [op |-> "seek", sid |-> sid, prior |-> PriorOf(sid), raced |-> FALSE]
       ELSE UNCHANGED <<hls, procs, hlsLog>>
  /\ UNCHANGED <<hlsReq, pbVars, jfVars, extVars>>

(* manager: the transcoder of a seeking session is spawned at the new offset *)
HlsSeekRespawn(sid) ==
  /\ hls[sid].state = "seeking"
  /\ SlotFree(procs, sid)
  /\ procs.next <= MaxProcs
  /\ procs' = SpawnTranscoder(procs, sid, hls[sid].offset)
  /\ hls' = [hls EXCEPT ![sid].state = "running"]
  /\ hlsLog' = [op |-> "respawn", sid |-> sid, prior |-> PriorOf(sid), raced |-> FALSE]
  /\ UNCHANGED <<hlsReq, pbVars, jfVars, extVars>>

(* manager: stop a session: terminate its process, then mark it Stopped *)
HlsStop(sid, cause) ==
  /\ procs' = KillProcs(procs, sid)
  /\ hls' = [hls EXCEPT ![sid] = Stopped]
  /\ hlsLog' = [op |-> cause, sid |-> sid, prior |-> PriorOf(sid), raced |-> FALSE]

(* manager: a transcoder is wanted for the session while the cap is reached.
   The start waits until a slot is free (HlsStartTranscoder and
   HlsSeekRespawn are not enabled before), or it is rejected as server busy
   and the session is stopped; no process is spawned *)
HlsServerBusy(sid) ==
  /\ hls[sid].state \in {"created", "seeking"}
  /\ ~SlotFree(procs, sid)
  /\ HlsStop(sid, "busy")
  /\ UNCHANGED <<hlsReq, pbVars, jfVars, extVars>>

(* client: DELETE /hls/:id; a failure is logged and swallowed *)
stopHlsSession(sid) ==
  /\ hls[sid].state \in ActiveStates \cup {"stopped"}
  /\ \E delivered \in BOOLEAN :
       IF delivered /\ hls[sid].state \in ActiveStates
       THEN HlsStop(sid, "client_stop")
       ELSE UNCHANGED <<hls, procs, hlsLog>>
  /\ UNCHANGED <<hlsReq, pbVars, jfVars, extVars>>

(* manager: no segment was requested for the idle interval *)
HlsIdleTimeout(sid) ==
  /\ hls[sid].state \in ActiveStates
  /\ HlsStop(sid, "idle_timeout")
  /\ UNCHANGED <<hlsReq, pbVars, jfVars, extVars>>

(* manager: server shutdown stops every active session *)
HlsShutdown ==
  /\ \E sid \in SessionIds : hls[sid].state \in ActiveStates
  /\ procs' = [procs EXCEPT !.live = {}]
  /\ hls' = [sid \in SessionIds |->
               IF hls[sid].state \in ActiveStates THEN Stopped
               ELSE hls[sid]]
  /\ hlsLog' = [op |-> "shutdown", sid |-> 0, prior |-> 0, raced |-> FALSE]
  /\ UNCHANGED <<hlsReq, pbVars, jfVars, extVars>>

NextHls ==
  \/ \E cap \in TranscoderCaps : HlsConfigure(cap)
  \/ \E p \in Pairs : startHlsSession(p)
  \/ \E p \in Pairs, t \in StartTimes : HlsCreateSession(p, t)
  \/ \E sid \in SessionIds : HlsStartTranscoder(sid)
  \/ \E sid \in SessionIds, pos \in Offsets : seekHlsSession(sid, pos)
  \/ \E sid \in SessionIds : HlsSeekRespawn(sid)
  \/ \E sid \in SessionIds : HlsServerBusy(sid)
  \/ \E sid \in SessionIds : stopHlsSession(sid)
  \/ \E sid \in SessionIds : HlsIdleTimeout(sid)
  \/ HlsShutdown

SpecHls == Init /\ [][NextHls]_vars

LivePids == {p.pid : p \in procs.live}

(* C9: a session identifier never has two live transcoder processes, and
   right after a transcoder is started for a session that had a live one,
   the session has exactly one live process and the prior one is dead *)
C9_AtMostOneLiveProcessPerSession ==
  /\ \A sid \in SessionIds : Cardinality(LiveProcs(procs, sid)) <= 1
  /\ (hlsLog.op \in {"spawn", "respawn"}) =>
        /\ Cardinality(LiveProcs(procs, hlsLog.sid)) = 1
        /\ hlsLog.prior # 0 => hlsLog.prior \notin LivePids

C9_Witness ==
  /\ hlsLog.op = "spawn"
  /\ hlsLog.prior # 0
  /\ hlsLog.prior \notin LivePids
  /\ Cardinality(LiveProcs(procs, hlsLog.sid)) = 1

(* C10: every live process belongs to a Running session: a session that is
   Stopped, Seeking, Created or absent has none *)
C10_NoOrphanedProcess ==
  /\ \A p \in procs.live : hls[p.sid].state = "running"
  /\ hlsLog.op \in {"client_stop", "idle_timeout"} =>
       hls[hlsLog.sid].state = "stopped" /\ LiveProcs(procs, hlsLog.sid) = {}
  /\ hlsLog.op = "shutdown" => procs.live = {}

C10_Witness ==
  /\ hlsLog.op = "client_stop"
  /\ hlsLog.prior # 0
  /\ hls[hlsLog.sid].state = "stopped"
  /\ hlsLog.prior \notin LivePids
  /\ \E sid \in SessionIds : sid # hlsLog.sid /\ LiveProcs(procs, sid) # {}

(* the sessions of a (file, client) pair that are Created, Running or Seeking *)
ActiveFor(p) ==
  {sid \in SessionIds : hls[sid].state \in {"created", "running", "seeking"} /\ hls[sid].pair = p}

(* C11: the session map never holds two active sessions, nor two live
   transcoders, for one (file, client) pair, however the start requests for
   the pair overlap; a served request leaves the pair with exactly one
   active session, the one it created, reused or superseded the old one by *)
C11_NoDuplicateSessionPerPair ==
  /\ \A p \in Pairs : Cardinality(ActiveFor(p)) <= 1
  /\ \A p \in Pairs :
       Cardinality({q \in procs.live : q.sid \in ActiveFor(p)}) <= 1
  /\ (hlsLog.op \in {"create", "reuse", "supersede"}) =>
       ActiveFor(hls[hlsLog.sid].pair) = {hlsLog.sid}

C11_Witness ==
  /\ hlsLog.op = "supersede"
  /\ hlsLog.raced
  /\ hlsLog.prior # 0
  /\ hlsLog.prior \notin LivePids
  /\ ActiveFor(hls[hlsLog.sid].pair) = {hlsLog.sid}

(* C12: the live transcoder processes never outnumber the configured cap;
   after a start was rejected as server busy the session is stopped, has no
   process, and the processes of the other sessions fill the cap *)
C12_TranscoderCapRespected ==
  /\ Cardinality(procs.live) <= procs.cap
  /\ hlsLog.op = "busy" =>
       /\ hls[hlsLog.sid].state = "stopped"
       /\ \A q \in procs.live : q.sid # hlsLog.sid
       /\ Cardinality(procs.live) = procs.cap

C12_Witness ==
  /\ hlsLog.op = "busy"
  /\ procs.cap = 1
  /\ Cardinality(procs.live) = 1
  /\ \E sid \in SessionIds : hls[sid].state = "running"

(* the steps of session sid allowed by Created -> Running -> (Seeking ->
   Running)* -> Stopped, with what a seek and a respawn do to the processes *)
SeekStep(sid) ==
  /\ (hls[sid].state # "seeking" /\ hls'[sid].state = "seeking") =>
       /\ hls[sid].state = "running"
       /\ LiveProcs(procs', sid) = {}
       /\ LiveProcs(procs, sid) # {}
       /\ hls'[sid].pair = hls[sid].pair
       /\ hls'[sid].offset \in Offsets
  /\ (hls[sid].state = "seeking" /\ hls'[sid].state # "seeking") =>
       \/ /\ hls'[sid].state = "running"
          /\ hls'[sid].pair = hls[sid].pair
          /\ \E q \in procs'.live :
               /\ LiveProcs(procs', sid) = {q}
               /\ q.offset = hls[sid].offset
               /\ q.pid >= procs.next
       \/ /\ hls'[sid].state = "stopped"
          /\ LiveProcs(procs', sid) = {}
  /\ hls[sid].state = "seeking" => LiveProcs(procs, sid) = {}
  /\ hls[sid].state = "stopped" => hls'[sid].state = "stopped"

(* C21: a seek takes a Running session to Seeking with its transcoder torn
   down, a Seeking session goes back to Running under the same identifier
   with one new process at the requested offset (or is stopped), and a
   Stopped session stays Stopped *)
C21_SeekRestartsTranscoder == [][\A sid \in SessionIds : SeekStep(sid)]_vars

C21_Witness ==
  /\ hlsLog.op = "respawn"
  /\ hls[hlsLog.sid].state = "running"
  /\ hls[hlsLog.sid].offset = 60
  /\ \E q \in procs.live : q.sid = hlsLog.sid /\ q.offset = 60 /\ q.pid > 1
  /\ Cardinality(LiveProcs(procs, hlsLog.sid)) = 1

====
